---- MODULE Spec2Model ----
(***************************************************************************)
(* Model of the style-reference engine of snowflake-writer                 *)
(* (src/style_rag.py): the Segmenter (_chunk_text, _split_long_paragraph), *)
(* the Classifier (_classify_chunk_type) and the coordination of the       *)
(* similarity index with the Catalog (add_reference_novel,                 *)
(* remove_reference, clear_all_references, __init__), the operations that  *)
(* read them (get_statistics, retrieve_style_samples, get_style_context,   *)
(* list_references) and the import from files (parse_file,                 *)
(* add_reference_from_file, scan_folder).                                  *)
(*                                                                         *)
(* A text is a sequence of characters; a character is a one-element        *)
(* string, or the name of its code point ("U3002") when it is not ASCII.   *)
(***************************************************************************)
EXTENDS Integers, Sequences, FiniteSets, TLC

VARIABLES
    engines,     \* the StyleRAG instances opened on the project path
    metadata,    \* metadata[e]: self.metadata["references"] of instance e
    disk,        \* style_references/metadata.json: "references", or Corrupt
    index,       \* the "style_references" collection: chunk id -> record
    collExists,  \* whether the collection exists in the ChromaDB client
    stale,       \* instances whose self.collection is a deleted collection
    ret,         \* what the last operation did and returned or raised
    hist,        \* history: whether a call has raised, the ref_ids removed
    pin,         \* input of a pure function (Segmenter, Classifier)
    pout,        \* its output, NotRun before it is applied
    folder,      \* the files of the folder that scan_folder reads
    deps,        \* the *_AVAILABLE flags set when the module is imported
    workspace,   \* the project folders under SnowflakeEngine.workspace_dir
    current_project,  \* SnowflakeEngine.current_project: a folder, or None
    sret         \* what the last SnowflakeEngine call returned or raised

ragVars == <<engines, metadata, disk, index, collExists, stale, ret, hist>>
pureVars == <<pin, pout>>
envVars == <<folder, deps>>
storyVars == <<workspace, current_project, sret>>
vars == <<engines, metadata, disk, index, collExists, stale, ret, hist, pin, pout,
          folder, deps, workspace, current_project, sret>>

-----------------------------------------------------------------------------
(* Characters *)

NL == "\n"
SP == " "
DQ == "\""
SQ == "'"

\* what str.strip() removes and what \s matches
Whitespace == {SP, NL, "\t", "\r", "\f"}

IsWs(c) == c \in Whitespace

\* [U3002 UFF01 UFF1F ! ? U2026] of sentence_endings
CjkStops == {"U3002", "UFF01", "UFF1F", "!", "?", "U2026"}

\* ["U300D U300F] of sentence_endings
CjkCloseQuotes == {DQ, "U300D", "U300F"}

\* [.!?] of sentence_endings
LatinStops == {".", "!", "?"}

\* ["'] of sentence_endings
LatinCloseQuotes == {DQ, SQ}

\* action_verbs of _classify_chunk_type
action_verbs == <<"U8DD1", "U8D70", "U6253", "U8E22", "U8DF3", "U51B2", "U6251", "U6293", "U63A8">>

-----------------------------------------------------------------------------
(* Sequence helpers *)

Max(S) == CHOOSE m \in S : \A n \in S : n <= m

RECURSIVE Concat(_)
\* "".join(seqs)
Concat(seqs) ==
    IF seqs = <<>> THEN <<>> ELSE Head(seqs) \o Concat(Tail(seqs))

RECURSIVE SumSeq(_)
SumSeq(s) ==
    IF s = <<>> THEN 0 ELSE Head(s) + SumSeq(Tail(s))

\* text.count(c) for a one-character c
Count(text, c) == Cardinality({i \in 1..Len(text) : text[i] = c})

\* n copies of the character c
Repeat(c, n) == [i \in 1..n |-> c]

\* str.strip()
Strip(text) ==
    LET keep == {i \in 1..Len(text) : ~IsWs(text[i])}
    IN  IF keep = {} THEN <<>>
        ELSE SubSeq(text, CHOOSE i \in keep : \A j \in keep : i <= j, Max(keep))

\* the end of the longest run of characters of class S that starts at i
\* (i - 1 when text[i] is not in S)
RunEnd(text, i, S) ==
    CHOOSE k \in (i - 1)..Len(text) :
        /\ \A m \in i..k : text[m] \in S
        /\ k = Len(text) \/ text[k + 1] \notin S

\* text.replace('\r\n', '\n').replace('\r', '\n'): every \r becomes \n and
\* the \n of a \r\n pair goes
NormalizeNewlines(text) ==
    LET at == [i \in 1..Len(text) |-> <<i, text[i]>>]
        kept == SelectSeq(at, LAMBDA p : ~(p[2] = NL /\ p[1] > 1 /\ text[p[1] - 1] = "\r"))
    IN  [k \in 1..Len(kept) |-> IF kept[k][2] = "\r" THEN NL ELSE kept[k][2]]

-----------------------------------------------------------------------------
(* Segmenter: paragraph splitting *)

\* where a match of \n\s*\n that starts at i ends, 0 when there is none
BlankLineMatchEnd(text, i) ==
    IF text[i] # NL THEN 0
    ELSE LET e == RunEnd(text, i + 1, Whitespace)
             ends == {j \in (i + 1)..e : text[j] = NL}
         IN  IF ends = {} THEN 0 ELSE Max(ends)

RECURSIVE SplitBlankFrom(_, _)
\* the pieces of text[start..] between the leftmost matches of \n\s*\n
SplitBlankFrom(text, start) ==
    LET starts == {i \in start..Len(text) : BlankLineMatchEnd(text, i) # 0}
    IN  IF starts = {} THEN <<SubSeq(text, start, Len(text))>>
        ELSE LET i == CHOOSE m \in starts : \A n \in starts : m <= n
             IN  <<SubSeq(text, start, i - 1)>>
                     \o SplitBlankFrom(text, BlankLineMatchEnd(text, i) + 1)

\* re.split(r'\n\s*\n', text)
SplitBlankLines(text) == SplitBlankFrom(text, 1)

\* text.split('\n'): the pieces between consecutive newlines
SplitLines(text) ==
    LET at == [i \in 1..Len(text) |-> i]
        nls == <<0>> \o SelectSeq(at, LAMBDA i : text[i] = NL) \o <<Len(text) + 1>>
    IN  [k \in 1..(Len(nls) - 1) |-> SubSeq(text, nls[k] + 1, nls[k + 1] - 1)]

\* the paragraphs of _chunk_text: blank-line split, or the line split when
\* that gives fewer than 5 paragraphs or one longer than 3 * chunk_size
Paragraphs(text, chunk_size) ==
    LET byBlank == SplitBlankLines(Strip(text))
    IN  IF \/ Len(byBlank) < 5
           \/ \E k \in 1..Len(byBlank) : Len(byBlank[k]) > chunk_size * 3
        THEN SplitLines(Strip(text))
        ELSE byBlank

-----------------------------------------------------------------------------
(* Segmenter: force-split of a long paragraph *)

\* where a match of sentence_endings that starts at i ends, 0 when there is
\* none: the first alternative is tried first and cannot fail on a CJK stop
SentenceEndMatchEnd(text, i) ==
    IF text[i] \in CjkStops
    THEN LET e == RunEnd(text, i, CjkStops)
         IN  IF e < Len(text) /\ text[e + 1] \in CjkCloseQuotes THEN e + 1 ELSE e
    ELSE IF text[i] \in LatinStops
    THEN LET e == RunEnd(text, i, LatinStops)
             q == IF e < Len(text) /\ text[e + 1] \in LatinCloseQuotes THEN e + 1 ELSE e
         IN  IF q < Len(text) /\ IsWs(text[q + 1]) THEN q + 1 ELSE 0
    ELSE 0

RECURSIVE SplitSentencesFrom(_, _)
\* the pieces of text[start..] around the leftmost matches of sentence_endings
SplitSentencesFrom(text, start) ==
    LET starts == {i \in start..Len(text) : SentenceEndMatchEnd(text, i) # 0}
    IN  IF starts = {} THEN <<SubSeq(text, start, Len(text))>>
        ELSE LET i == CHOOSE m \in starts : \A n \in starts : m <= n
                 e == SentenceEndMatchEnd(text, i)
             IN  <<SubSeq(text, start, i - 1), SubSeq(text, i, e)>>
                     \o SplitSentencesFrom(text, e + 1)

\* the pattern without its capture group: re.split drops the delimiters
SplitSentences_NoCapture(text) ==
    LET parts == SplitSentencesFrom(text, 1)
    IN  [k \in 1..((Len(parts) + 1) \div 2) |-> parts[2 * k - 1]]

\* re.split(sentence_endings, text): the pattern is one capture group, so
\* the list alternates text, delimiter, text, ..., text
SplitSentences(text) == SplitSentencesFrom(text, 1)

\* re.match(sentence_endings, s)
MatchesSentenceEnd(s) == Len(s) > 0 /\ SentenceEndMatchEnd(s, 1) # 0

RECURSIVE RejoinSentences(_, _)
\* the while loop that glues each delimiter to the text before it
RejoinSentences(sentences, i) ==
    IF i > Len(sentences) THEN <<>>
    ELSE IF i + 1 <= Len(sentences) /\ MatchesSentenceEnd(sentences[i + 1])
         THEN <<sentences[i] \o sentences[i + 1]>> \o RejoinSentences(sentences, i + 2)
         ELSE (IF Strip(sentences[i]) # <<>> THEN <<sentences[i]>> ELSE <<>>)
                  \o RejoinSentences(sentences, i + 1)

RECURSIVE PackSentences(_, _, _, _)
\* the for loop that packs sentences up to chunk_size; returns the chunks
PackSentences(sents, current, chunks, chunk_size) ==
    IF sents = <<>>
    THEN IF current # <<>> THEN Append(chunks, current) ELSE chunks
    ELSE LET sent == Strip(Head(sents))
         IN  IF sent = <<>>
             THEN PackSentences(Tail(sents), current, chunks, chunk_size)
             ELSE IF Len(current) + Len(sent) > chunk_size /\ current # <<>>
                  THEN PackSentences(Tail(sents), sent, Append(chunks, current), chunk_size)
                  ELSE PackSentences(Tail(sents), current \o sent, chunks, chunk_size)

\* _split_long_paragraph(text, chunk_size)
SplitLongParagraph(text, chunk_size) ==
    LET result_sentences == RejoinSentences(SplitSentences(text), 1)
        chunks == PackSentences(result_sentences, <<>>, <<>>, chunk_size)
    IN  IF chunks # <<>> THEN chunks ELSE <<text>>

-----------------------------------------------------------------------------
(* Segmenter: accumulation *)

\* the loop state of _chunk_text
EmptyBuffer == [chunks |-> <<>>, current_chunk |-> <<>>, current_length |-> 0]

Flush(st) ==
    [chunks |-> Append(st.chunks, [text |-> Strip(st.current_chunk),
                                   char_count |-> st.current_length]),
     current_chunk |-> <<>>, current_length |-> 0]

\* one sub-chunk of a force-split paragraph
AddSubChunk(st, sub, chunk_size) ==
    LET s1 == IF st.current_chunk # <<>> /\ 2 * st.current_length >= chunk_size
              THEN Flush(st) ELSE st
        s2 == IF s1.current_chunk # <<>>
              THEN [s1 EXCEPT !.current_chunk = s1.current_chunk \o <<NL>> \o sub,
                              !.current_length = s1.current_length + Len(sub)]
              ELSE [s1 EXCEPT !.current_chunk = sub, !.current_length = Len(sub)]
    IN  IF s2.current_length >= chunk_size THEN Flush(s2) ELSE s2

RECURSIVE AddSubChunks(_, _, _)
AddSubChunks(st, subs, chunk_size) ==
    IF subs = <<>> THEN st
    ELSE AddSubChunks(AddSubChunk(st, Head(subs), chunk_size), Tail(subs), chunk_size)

\* one paragraph of the for loop of _chunk_text
\* (n > chunk_size * 1.2 is 5 * n > 6 * chunk_size)
AddParagraph(st, rawPara, chunk_size) ==
    LET para == Strip(rawPara)
        para_length == Len(para)
    IN  IF para = <<>> THEN st
        ELSE IF Len(para) > chunk_size * 2
        THEN AddSubChunks(st, SplitLongParagraph(para, chunk_size), chunk_size)
        ELSE IF st.current_length > 0
                /\ 5 * (st.current_length + para_length) > 6 * chunk_size
        THEN LET s1 == IF st.current_chunk # <<>> THEN Flush(st) ELSE st
             IN  [s1 EXCEPT !.current_chunk = para, !.current_length = para_length]
        ELSE [st EXCEPT !.current_chunk =
                            IF st.current_chunk # <<>>
                            THEN st.current_chunk \o <<NL>> \o para ELSE para,
                        !.current_length = st.current_length + para_length]

RECURSIVE AddParagraphs(_, _, _)
AddParagraphs(st, paragraphs, chunk_size) ==
    IF paragraphs = <<>> THEN st
    ELSE AddParagraphs(AddParagraph(st, Head(paragraphs), chunk_size),
                       Tail(paragraphs), chunk_size)

\* a trailing buffer of at most this many characters is dropped
MinTailChars == 50

\* the trailing buffer dropped whatever its size
ChunkText_DropsTail(rawText, chunk_size) ==
    AddParagraphs(EmptyBuffer, Paragraphs(NormalizeNewlines(rawText), chunk_size),
                  chunk_size).chunks

\* _chunk_text(text, chunk_size)
ChunkText(rawText, chunk_size) ==
    LET text == NormalizeNewlines(rawText)
        st == AddParagraphs(EmptyBuffer, Paragraphs(text, chunk_size), chunk_size)
    IN  IF st.current_chunk # <<>> /\ st.current_length > MinTailChars
        THEN Flush(st).chunks
        ELSE st.chunks

-----------------------------------------------------------------------------
(* Classifier *)

\* text.count('"') + text.count('"') + text.count('"')
DialogueMarkers(text) == Count(text, DQ) + Count(text, DQ) + Count(text, DQ)

ActionCount(text) ==
    SumSeq([k \in 1..Len(action_verbs) |-> Count(text, action_verbs[k])])

\* _classify_chunk_type(text); dialogue_ratio > 0.1 is
\* 10 * dialogue_markers > max(len(text), 1)
ClassifyChunkType(text) ==
    LET lenOr1 == IF Len(text) > 1 THEN Len(text) ELSE 1
    IN  IF 10 * DialogueMarkers(text) > lenOr1 THEN "dialogue"
        ELSE IF ActionCount(text) > 3 THEN "action"
        ELSE IF Len(text) > 300 THEN "description"
        ELSE "mixed"

-----------------------------------------------------------------------------
(* Catalog and similarity index *)

\* author=None
None == "None"

\* a dict with no keys
EmptyDict == <<>>

\* metadata.json before the first _save_metadata
NoFile == [file |-> "absent", references |-> EmptyDict]

\* metadata.json after a write that stopped half way: open(path, 'w') has
\* truncated the file and json.dump did not finish
Corrupt == [file |-> "truncated", references |-> EmptyDict]

\* the file written before the Catalog is filled in
JsonFile_Empty(references) == [file |-> "json", references |-> EmptyDict]

\* metadata.json after _save_metadata: {"references": references}
JsonFile(references) == [file |-> "json", references |-> references]

\* d[k] = v
Put(d, k, v) == [x \in DOMAIN d \cup {k} |-> IF x = k THEN v ELSE d[x]]

\* del d[k]
Del(d, k) == [x \in DOMAIN d \ {k} |-> d[x]]

\* hashlib.md5(title.encode()).hexdigest()[:8], for the titles of the model
RefId(title) ==
    CASE title = "kot" -> "a986d9ee"
      [] title = "bwma" -> "a986d9ee"
      [] title = "a" -> "0cc175b9"

\* positions counted from 1
ChunkId_OneBased(ref_id, i) == <<ref_id, "_chunk_", i + 1>>

\* f"{ref_id}_chunk_{i}"
ChunkId(ref_id, i) == <<ref_id, "_chunk_", i>>

\* the duplicate check left out
IsDuplicate_Never(references, ref_id) == FALSE

\* ref_id in self.metadata["references"]
IsDuplicate(references, ref_id) == ref_id \in DOMAIN references

\* the limit left out
LimitChunks_Off(chunks, max_chunks) == chunks

\* chunks[:max_chunks], for max_chunks >= 0
LimitChunks(chunks, max_chunks) ==
    IF Len(chunks) > max_chunks THEN SubSeq(chunks, 1, max_chunks) ELSE chunks

\* ids, texts and metadatas of add_reference_novel, one record per chunk;
\* i is the zero-based enumerate index
PrepareBatch(title, author, chunks) ==
    [k \in 1..Len(chunks) |->
        [id |-> ChunkId(RefId(title), k - 1),
         document |-> chunks[k].text,
         metadata |-> [ref_id |-> RefId(title),
                       title |-> title,
                       author |-> IF author = None THEN "Unknown" ELSE author,
                       chunk_index |-> k - 1,
                       chunk_type |-> ClassifyChunkType(chunks[k].text),
                       char_count |-> chunks[k].char_count]]]

\* the summary add_reference_novel stores under metadata["references"][ref_id]
CatalogEntry(title, author, chunks) ==
    [title |-> title,
     author |-> author,
     chunk_count |-> Len(chunks),
     total_chars |-> SumSeq([k \in 1..Len(chunks) |-> chunks[k].char_count]),
     added_at |-> None]

\* collection.add(ids, documents, metadatas): ChromaDB keeps the record of an
\* id that is already in the collection and adds the others
CollectionAdd(idx, batch) ==
    LET new == {k \in 1..Len(batch) : batch[k].id \notin DOMAIN idx}
        slot(id) == CHOOSE k \in new : batch[k].id = id
    IN  [id \in DOMAIN idx \cup {batch[k].id : k \in new} |->
            IF id \in DOMAIN idx THEN idx[id]
            ELSE [document |-> batch[slot(id)].document,
                  metadata |-> batch[slot(id)].metadata]]

\* the where filter left out
CollectionGet_NoFilter(idx, ref_id) == DOMAIN idx

\* collection.get(where={"ref_id": ref_id})["ids"]
CollectionGet(idx, ref_id) == {id \in DOMAIN idx : idx[id].metadata.ref_id = ref_id}

\* a delete that deletes nothing
CollectionDelete_Nothing(idx, ids) == idx

\* collection.delete(ids=ids)
CollectionDelete(idx, ids) == [id \in DOMAIN idx \ ids |-> idx[id]]

\* the file ignored
LoadMetadata_Empty(d) == EmptyDict

\* _load_metadata: the file's references, none when there is no file
LoadMetadata(d) == IF d.file = "absent" THEN EmptyDict ELSE d.references

-----------------------------------------------------------------------------
(* Operations as sequences of steps.  A step that raises ends the          *)
(* operation: what the earlier steps did stays, the later steps do not     *)
(* happen.                                                                 *)

\* the calls on the external capabilities, any of which can raise
ExternalSteps ==
    {"model.encode", "collection.add", "collection.get", "collection.delete",
     "client.delete_collection", "client.get_or_create_collection",
     "_save_metadata"}

\* the ways a step can be made to fail: _save_metadata fails in open() or in
\* json.dump(), the other calls fail as a whole
NoFail == "none"
FailureOf(step) ==
    IF step = "_save_metadata"
    THEN {"_save_metadata@open", "_save_metadata@write"}
    ELSE IF step \in ExternalSteps THEN {step} ELSE {}

\* the stores as one record
Stores ==
    [metadata |-> metadata, disk |-> disk, index |-> index,
     collExists |-> collExists, stale |-> stale]

\* the Catalog written before the embedding and the upsert
AddSteps_CatalogFirst ==
    <<"metadata.set", "_save_metadata", "model.encode", "collection.add">>

\* the Catalog written after the embedding and before the upsert
AddSteps_SaveBeforeUpsert ==
    <<"model.encode", "metadata.set", "_save_metadata", "collection.add">>

\* add_reference_novel after the duplicate check (lines 357-375)
AddSteps ==
    <<"model.encode", "collection.add", "metadata.set", "_save_metadata">>

\* the chunks looked up and not deleted
RemoveSteps_KeepChunks(ids) ==
    <<"collection.get", "metadata.del", "_save_metadata">>

\* remove_reference after the membership check (lines 495-501)
RemoveSteps(ids) ==
    <<"collection.get">>
        \o (IF ids # {} THEN <<"collection.delete">> ELSE <<>>)
        \o <<"metadata.del", "_save_metadata">>

\* the Catalog kept
ClearSteps_KeepCatalog ==
    <<"client.delete_collection", "client.get_or_create_collection",
      "_save_metadata">>

\* clear_all_references (lines 510-518)
ClearSteps ==
    <<"client.delete_collection", "client.get_or_create_collection",
      "metadata.reset", "_save_metadata">>

\* what a step does to the stores when it returns; c is the call's context
\* (instance e, ref_id, the prepared batch, the catalog entry)
StepEffect(st, step, c) ==
    CASE step = "collection.add" ->
            [st EXCEPT !.index = CollectionAdd(st.index, c.batch)]
      [] step = "metadata.set" ->
            [st EXCEPT !.metadata[c.e] = Put(@, c.ref_id, c.entry)]
      [] step = "_save_metadata" ->
            [st EXCEPT !.disk = JsonFile(st.metadata[c.e])]
      [] step = "collection.delete" ->
            [st EXCEPT !.index = CollectionDelete(st.index, CollectionGet(st.index, c.ref_id))]
      [] step = "metadata.del" ->
            [st EXCEPT !.metadata[c.e] = Del(@, c.ref_id)]
      [] step = "client.delete_collection" ->
            [st EXCEPT !.index = EmptyDict, !.collExists = FALSE,
                       !.stale = DOMAIN st.metadata]
      [] step = "client.get_or_create_collection" ->
            [st EXCEPT !.collExists = TRUE, !.stale = @ \ {c.e}]
      [] step = "metadata.reset" ->
            [st EXCEPT !.metadata[c.e] = EmptyDict]
      [] OTHER -> st

\* a step that raises whatever the environment does: ChromaDB rejects an
\* empty batch and any call on a deleted collection
RaisesByItself(st, step, c) ==
    CASE step = "collection.add" -> c.e \in st.stale \/ c.batch = <<>>
      [] step \in {"collection.get", "collection.delete"} -> c.e \in st.stale
      [] step = "client.delete_collection" -> ~st.collExists
      [] step = "metadata.del" -> c.ref_id \notin DOMAIN st.metadata[c.e]
      [] OTHER -> FALSE

\* what a raising step leaves behind: only a write that stopped half way
\* leaves something, the truncated file
RaiseEffect(st, step, fail) ==
    IF step = "_save_metadata" /\ fail = "_save_metadata@write"
    THEN [st EXCEPT !.disk = Corrupt]
    ELSE st

RECURSIVE RunSteps(_, _, _, _, _)
\* runs the steps in order until one raises
RunSteps(st, steps, c, fail, calls) ==
    IF steps = <<>> THEN [st |-> st, raised |-> FALSE, at |-> "", calls |-> calls]
    ELSE LET step == Head(steps)
             called == IF step \in ExternalSteps THEN Append(calls, step) ELSE calls
         IN  IF RaisesByItself(st, step, c) \/ fail \in FailureOf(step)
             THEN [st |-> RaiseEffect(st, step, fail), raised |-> TRUE,
                   at |-> step, calls |-> called]
             ELSE RunSteps(StepEffect(st, step, c), Tail(steps), c, fail, called)

-----------------------------------------------------------------------------
(* Inputs of the model *)

\* "kot" and "bwma" have the same ref_id
Titles == {"kot", "bwma", "a"}

\* 'x! y. zz\nxx': three chunks at chunk_size 2
ThreeChunkText == <<"x", "!", SP, "y", ".", SP, "z", "z", NL, "x", "x">>

\* '"x\nyy\nzz': a dialogue chunk and a mixed chunk at chunk_size 2
TwoChunkText == <<DQ, "x", NL, "y", "y", NL, "z", "z">>

\* 'xxxxx': one chunk of five characters at chunk_size 2
OneChunkText == <<"x", "x", "x", "x", "x">>

\* max_chunks=200, the default
DefaultMaxChunks == 200

\* the add_reference_novel calls of the model: with and without an author,
\* with and without truncation by max_chunks, with nothing to index
AddCalls ==
    {[title |-> "kot", content |-> ThreeChunkText, author |-> "au",
      chunk_size |-> 2, max_chunks |-> DefaultMaxChunks],
     [title |-> "kot", content |-> OneChunkText, author |-> None,
      chunk_size |-> 2, max_chunks |-> DefaultMaxChunks],
     [title |-> "bwma", content |-> TwoChunkText, author |-> None,
      chunk_size |-> 2, max_chunks |-> 1],
     [title |-> "a", content |-> TwoChunkText, author |-> "au",
      chunk_size |-> 2, max_chunks |-> DefaultMaxChunks],
     [title |-> "a", content |-> <<>>, author |-> None,
      chunk_size |-> 2, max_chunks |-> DefaultMaxChunks]}

\* the ref_ids of the titles and one that no title has
RefIds == {RefId(t) : t \in Titles} \cup {"ffffffff"}

Failures == {NoFail} \cup UNION {FailureOf(s) : s \in ExternalSteps}

StepsOf(steps) == {steps[k] : k \in 1..Len(steps)}

-----------------------------------------------------------------------------
(* Operations *)

\* CHROMADB_AVAILABLE, SENTENCE_TRANSFORMERS_AVAILABLE, PYPDF2_AVAILABLE,
\* EBOOKLIB_AVAILABLE, BS4_AVAILABLE when every import succeeded
AllAvailable ==
    [chromadb |-> TRUE, sentence_transformers |-> TRUE, PyPDF2 |-> TRUE,
     ebooklib |-> TRUE, bs4 |-> TRUE]

\* a folder with no files
EmptyFolder == {}

NotRun == [fn |-> "none", text |-> <<>>, chunk_size |-> 0]
NoOutput == [done |-> FALSE, chunks |-> <<>>, subs |-> <<>>, type |-> ""]

\* the history after an operation with outcome r that removed the
\* References gone when it returned
Remember(h, r, gone) ==
    [raised |-> h.raised \/ r.raised,
     removed |-> IF r.raised THEN h.removed ELSE h.removed \cup gone]

\* the stores take the values of the record st
StoresBecome(st) ==
    /\ metadata' = st.metadata
    /\ disk' = st.disk
    /\ index' = st.index
    /\ collExists' = st.collExists
    /\ stale' = st.stale

\* no structured value returned
NoValue == <<>>

\* the last operation when it returned: its arguments, its result, the
\* external calls it made
Returned(op, e, title, ref_id, result, chunks_added, total_chars, calls) ==
    [op |-> op, e |-> e, title |-> title, ref_id |-> ref_id, fail |-> NoFail,
     raised |-> FALSE,
     error |-> "", at |-> "", result |-> result, chunks_added |-> chunks_added,
     total_chars |-> total_chars, calls |-> calls, out |-> NoValue]

\* the last operation when it raised: the failure of the environment (if
\* any), the exception and the step that raised it
Raised(op, e, title, ref_id, fail, error, at, calls) ==
    [op |-> op, e |-> e, title |-> title, ref_id |-> ref_id, fail |-> fail,
     raised |-> TRUE,
     error |-> error, at |-> at, result |-> "", chunks_added |-> 0,
     total_chars |-> 0, calls |-> calls, out |-> NoValue]

\* what add_reference_novel returns or raises after the steps r on chunks
AddResult(r, chunks) ==
    [st |-> r.st, raised |-> r.raised,
     error |-> IF r.raised THEN "Exception" ELSE "",
     at |-> r.at, calls |-> r.calls,
     chunks_added |-> IF r.raised THEN 0 ELSE Len(chunks),
     total_chars |-> IF r.raised THEN 0
                     ELSE SumSeq([k \in 1..Len(chunks) |-> chunks[k].char_count])]

\* add_reference_novel once the chunks are cut (lines 337-382)
AddChunks(st, e, title, author, chunks, fail) ==
    AddResult(RunSteps(st, AddSteps,
                       [e |-> e, ref_id |-> RefId(title),
                        batch |-> PrepareBatch(title, author, chunks),
                        entry |-> CatalogEntry(title, author, chunks)],
                       fail, <<>>),
              chunks)

\* add_reference_novel on the stores st: the stores it leaves and what it
\* returns or raises
AddOutcome(st, e, title, content, author, chunk_size, max_chunks, fail) ==
    IF IsDuplicate(st.metadata[e], RefId(title))
    THEN [st |-> st, raised |-> TRUE, error |-> "StyleRAGError", at |-> "duplicate",
          calls |-> <<>>, chunks_added |-> 0, total_chars |-> 0]
    ELSE AddChunks(st, e, title, author,
                   LimitChunks(ChunkText(content, chunk_size), max_chunks), fail)

\* StyleRAG.add_reference_novel(title, content, author, chunk_size, max_chunks)
AddReferenceNovel(e, title, content, author, chunk_size, max_chunks, fail) ==
    /\ IF IsDuplicate(metadata[e], RefId(title))
       THEN fail = NoFail
       ELSE fail \in {NoFail} \cup UNION {FailureOf(s) : s \in StepsOf(AddSteps)}
    /\ \E o \in {AddOutcome(Stores, e, title, content, author, chunk_size,
                              max_chunks, fail)} :
            /\ StoresBecome(o.st)
            /\ ret' = IF o.raised
                      THEN Raised("add", e, title, RefId(title), fail, o.error, o.at,
                                  o.calls)
                      ELSE Returned("add", e, title, RefId(title), "dict",
                                    o.chunks_added, o.total_chars, o.calls)
    /\ hist' = Remember(hist, ret', {})
    /\ UNCHANGED <<engines, pin, pout, folder, deps, storyVars>>

\* the early return left out
NotInCatalog_Never(references, ref_id) == FALSE

\* ref_id not in self.metadata["references"]
NotInCatalog(references, ref_id) == ref_id \notin DOMAIN references

\* StyleRAG.remove_reference(ref_id)
RemoveReference(e, ref_id, fail) ==
    /\ IF NotInCatalog(metadata[e], ref_id)
       THEN /\ fail = NoFail
            /\ UNCHANGED <<metadata, disk, index, collExists, stale>>
            /\ ret' = Returned("remove", e, "", ref_id, "False", 0, 0, <<>>)
       ELSE \E steps \in {RemoveSteps(CollectionGet(index, ref_id))} :
            \E c \in {[e |-> e, ref_id |-> ref_id, batch |-> <<>>, entry |-> <<>>]} :
            \E r \in {RunSteps(Stores, steps, c, fail, <<>>)} :
                /\ fail \in {NoFail} \cup UNION {FailureOf(s) : s \in StepsOf(steps)}
                /\ StoresBecome(r.st)
                /\ ret' = IF r.raised
                          THEN Raised("remove", e, "", ref_id, fail, "StyleRAGError",
                                      r.at, r.calls)
                          ELSE Returned("remove", e, "", ref_id, "True", 0, 0, r.calls)
    /\ hist' = Remember(hist, ret', IF ret'.result = "True" THEN {ref_id} ELSE {})
    /\ UNCHANGED <<engines, pin, pout, folder, deps, storyVars>>

\* StyleRAG.clear_all_references()
ClearAllReferences(e, fail) ==
    \E c \in {[e |-> e, ref_id |-> "", batch |-> <<>>, entry |-> <<>>]} :
    \E r \in {RunSteps(Stores, ClearSteps, c, fail, <<>>)} :
        /\ fail \in {NoFail} \cup UNION {FailureOf(s) : s \in StepsOf(ClearSteps)}
        /\ StoresBecome(r.st)
        /\ ret' = IF r.raised
                  THEN Raised("clear", e, "", "", fail, "Exception", r.at, r.calls)
                  ELSE Returned("clear", e, "", "", "None", 0, 0, r.calls)
        /\ hist' = Remember(hist, ret', DOMAIN metadata[e])
        /\ UNCHANGED <<engines, pin, pout, folder, deps, storyVars>>

\* the collection of an instance whose handle is of a deleted collection
\* answers no call
HandleIsStale(e) == e \in stale

\* sum(ref[field] for ref in references.values())
RECURSIVE SumOverReferences(_, _)
SumOverReferences(references, field) ==
    IF DOMAIN references = {} THEN 0
    ELSE LET k == CHOOSE x \in DOMAIN references : TRUE
         IN  references[k][field] + SumOverReferences(Del(references, k), field)

\* the dict get_statistics returns
Statistics(references, idx) ==
    [reference_count |-> Cardinality(DOMAIN references),
     total_chunks |-> SumOverReferences(references, "chunk_count"),
     total_characters |-> SumOverReferences(references, "total_chars"),
     collection_count |-> Cardinality(DOMAIN idx)]

\* StyleRAG.get_statistics()
GetStatistics(e) ==
    /\ ret' = IF HandleIsStale(e)
              THEN Raised("get_statistics", e, "", "", NoFail, "Exception",
                          "collection.count", <<"collection.count">>)
              ELSE [Returned("get_statistics", e, "", "", "dict", 0, 0,
                             <<"collection.count">>)
                       EXCEPT !.out = Statistics(metadata[e], index)]
    /\ hist' = Remember(hist, ret', {})
    /\ UNCHANGED <<engines, metadata, disk, index, collExists, stale, pin, pout,
                   folder, deps, storyVars>>

\* an optional argument that is given and not empty ("if chunk_type:")
Truthy(v) == v # None /\ v # ""

\* the where dict of retrieve_style_samples: a key for each filter given
WhereOf(chunk_type, ref_id) ==
    [k \in {x \in {"chunk_type", "ref_id"} :
                Truthy(IF x = "chunk_type" THEN chunk_type ELSE ref_id)} |->
        IF k = "chunk_type" THEN chunk_type ELSE ref_id]

\* a record passes the where filter when it has every value asked for;
\* where=None (the empty dict) filters nothing
Matches(meta, where) == \A k \in DOMAIN where : meta[k] = where[k]

\* stands for the cosine distance of the embeddings of two texts: the number
\* of positions at which they differ, 0 for equal texts
Distance(a, b) ==
    LET short == IF Len(a) < Len(b) THEN Len(a) ELSE Len(b)
        long == IF Len(a) < Len(b) THEN Len(b) ELSE Len(a)
    IN  (long - short) + Cardinality({i \in 1..short : a[i] # b[i]})

RECURSIVE Rankings(_, _, _)
\* the orders of the records ids by non-decreasing distance to query; records
\* at the same distance come in any order
Rankings(idx, ids, query) ==
    IF ids = {} THEN {<<>>}
    ELSE LET nearest == {x \in ids : \A y \in ids :
                            Distance(query, idx[x].document)
                                <= Distance(query, idx[y].document)}
         IN  UNION {{<<x>> \o r : r \in Rankings(idx, ids \ {x}, query)} :
                        x \in nearest}

\* n_results ignored
CollectionQuery_Unbounded(idx, query, n_results, where) ==
    Rankings(idx, {id \in DOMAIN idx : Matches(idx[id].metadata, where)}, query)

\* collection.query(query_embeddings, n_results, where): the ids of the
\* n_results nearest records that pass the filter, nearest first, all of them
\* when there are fewer; one sequence for each way to order equal distances
CollectionQuery(idx, query, n_results, where) ==
    {SubSeq(r, 1, IF Len(r) < n_results THEN Len(r) ELSE n_results) :
        r \in Rankings(idx, {id \in DOMAIN idx : Matches(idx[id].metadata, where)},
                       query)}

\* the samples list built from the result of collection.query
FormatSamples(idx, ids, query) ==
    [i \in 1..Len(ids) |->
        [text |-> idx[ids[i]].document,
         metadata |-> idx[ids[i]].metadata,
         distance |-> Distance(query, idx[ids[i]].document)]]

\* the outcomes of retrieve_style_samples: model.encode, then collection.query,
\* then the samples.  ChromaDB versions that want one operator in a where
\* dict reject the dict with both keys, the others take it as a conjunction.
RetrieveOutcomes(e, query, n_results, chunk_type, ref_id, fail) ==
    LET where == WhereOf(chunk_type, ref_id)
        raises(at, calls) ==
            [raised |-> TRUE, at |-> at, calls |-> calls, where |-> where,
             ids |-> <<>>, samples |-> <<>>]
    IN  IF fail = "model.encode"
        THEN {raises("model.encode", <<"model.encode">>)}
        ELSE IF fail = "collection.query" \/ HandleIsStale(e)
        THEN {raises("collection.query", <<"model.encode", "collection.query">>)}
        ELSE {[raised |-> FALSE, at |-> "",
               calls |-> <<"model.encode", "collection.query">>, where |-> where,
               ids |-> ids, samples |-> FormatSamples(index, ids, query)] :
                    ids \in CollectionQuery(index, query, n_results, where)}
             \cup (IF Cardinality(DOMAIN where) > 1
                   THEN {raises("collection.query",
                                <<"model.encode", "collection.query">>)}
                   ELSE {})

\* the failures of the environment that a retrieval can meet
QueryFailures == {NoFail, "model.encode", "collection.query"}

\* StyleRAG.retrieve_style_samples(query, n_results, chunk_type, ref_id)
RetrieveStyleSamples(e, query, n_results, chunk_type, ref_id, fail) ==
    /\ fail \in QueryFailures
    /\ \E o \in RetrieveOutcomes(e, query, n_results, chunk_type, ref_id, fail) :
          ret' = IF o.raised
                 THEN Raised("retrieve_style_samples", e, "", "", fail, "Exception",
                             o.at, o.calls)
                 ELSE [Returned("retrieve_style_samples", e, "", "", "list", 0, 0,
                                o.calls)
                          EXCEPT !.out = [query |-> query, n_results |-> n_results,
                                          where |-> o.where, ids |-> o.ids,
                                          samples |-> o.samples]]
    /\ hist' = Remember(hist, ret', {})
    /\ UNCHANGED <<engines, metadata, disk, index, collExists, stale, pin, pout,
                   folder, deps, storyVars>>

\* the mapping narrative -> description left out
TypeMapping_Identity(scene_type) ==
    IF scene_type \in {"dialogue", "action", "narrative", "description"}
    THEN scene_type ELSE None

\* type_mapping.get(scene_type)
TypeMapping(scene_type) ==
    CASE scene_type = "dialogue" -> "dialogue"
      [] scene_type = "action" -> "action"
      [] scene_type = "narrative" -> "description"
      [] scene_type = "description" -> "description"
      [] OTHER -> None

\* list(self.metadata["references"].values()), as the set of the entries
CatalogValues(references) == {references[k] : k \in DOMAIN references}

\* StyleRAG.get_style_context(scene_description, scene_type, n_samples)
GetStyleContext(e, scene_description, scene_type, n_samples, fail) ==
    /\ fail \in QueryFailures
    /\ \E o \in RetrieveOutcomes(e, scene_description, n_samples,
                                  TypeMapping(scene_type), None, fail) :
          ret' = IF o.raised
                 THEN Raised("get_style_context", e, "", "", fail, "Exception",
                             o.at, o.calls)
                 ELSE [Returned("get_style_context", e, "", "", "dict", 0, 0, o.calls)
                          EXCEPT !.out = [scene_type |-> scene_type,
                                          n_results |-> n_samples,
                                          where |-> o.where, ids |-> o.ids,
                                          samples |-> o.samples,
                                          sample_count |-> Len(o.samples),
                                          references |-> CatalogValues(metadata[e])]]
    /\ hist' = Remember(hist, ret', {})
    /\ UNCHANGED <<engines, metadata, disk, index, collExists, stale, pin, pout,
                   folder, deps, storyVars>>

\* str(path) of a file of the folder
FileName(f) == <<f.stem, f.ext>>

\* path.suffix.lower()
Lower(ext) ==
    CASE ext = ".TXT" -> ".txt"
      [] ext = ".PDF" -> ".pdf"
      [] ext = ".EPUB" -> ".epub"
      [] OTHER -> ext

\* supported_extensions of scan_folder
supported_extensions == {".txt", ".pdf", ".epub"}

\* a parse that raises
ParseRaises(error, at) ==
    [raised |-> TRUE, error |-> error, at |-> at, content |-> <<>>, title |-> "",
     format |-> "", file_path |-> <<>>]

\* the dict parse_file returns
Parsed(f, format) ==
    [raised |-> FALSE, error |-> "", at |-> "", content |-> f.content,
     title |-> f.stem, format |-> format, file_path |-> FileName(f)]

\* _parse_txt: open() raises on a file that cannot be read; the decoding
\* never fails, latin-1 decodes every byte
ParseTxt(f) ==
    IF f.state = "damaged" THEN ParseRaises("Exception", "_parse_txt")
    ELSE Parsed(f, "txt")

\* _parse_pdf: PyPDF2 is looked for when a PDF is parsed
ParsePdf(f, d) ==
    IF ~d.PyPDF2 THEN ParseRaises("DependencyError", "_parse_pdf")
    ELSE IF f.state = "damaged" \/ f.content = <<>>
    THEN ParseRaises("StyleRAGError", "_parse_pdf")
    ELSE Parsed(f, "pdf")

\* _parse_epub: ebooklib and BeautifulSoup are looked for when an EPUB is
\* parsed
ParseEpub(f, d) ==
    IF ~d.ebooklib \/ ~d.bs4 THEN ParseRaises("DependencyError", "_parse_epub")
    ELSE IF f.state = "damaged" \/ f.content = <<>>
    THEN ParseRaises("StyleRAGError", "_parse_epub")
    ELSE Parsed(f, "epub")

\* parse_file(file_path) for file f; f.state = "missing" when there is no
\* file at the path
ParseOutcome(f, d) ==
    IF f.state = "missing" THEN ParseRaises("StyleRAGError", "exists")
    ELSE CASE Lower(f.ext) = ".txt" -> ParseTxt(f)
           [] Lower(f.ext) = ".pdf" -> ParsePdf(f, d)
           [] Lower(f.ext) = ".epub" -> ParseEpub(f, d)
           [] OTHER -> ParseRaises("StyleRAGError", "suffix")

\* the result of add_reference_from_file: that of add_reference_novel with
\* source_file and source_format
FromFileResult(a, parsed, title) ==
    [st |-> a.st, raised |-> a.raised, error |-> a.error, at |-> a.at,
     calls |-> a.calls, chunks_added |-> a.chunks_added,
     total_chars |-> a.total_chars, title |-> title,
     source_file |-> parsed.file_path, source_format |-> parsed.format]

\* add_reference_from_file after parse_file (lines 679-694)
AddParsed(st, e, parsed, title, author, chunk_size, max_chunks) ==
    IF parsed.raised
    THEN [st |-> st, raised |-> TRUE, error |-> parsed.error, at |-> parsed.at,
          calls |-> <<>>, chunks_added |-> 0, total_chars |-> 0, title |-> "",
          source_file |-> <<>>, source_format |-> ""]
    ELSE FromFileResult(AddOutcome(st, e, IF Truthy(title) THEN title ELSE parsed.title,
                                   parsed.content, author, chunk_size, max_chunks,
                                   NoFail),
                        parsed, IF Truthy(title) THEN title ELSE parsed.title)

\* add_reference_from_file on the stores st
FromFileOutcome(st, e, f, d, title, author, chunk_size, max_chunks) ==
    AddParsed(st, e, ParseOutcome(f, d), title, author, chunk_size, max_chunks)

\* StyleRAG.parse_file(file_path)
ParseFile(e, f) ==
    /\ \E parsed \in {ParseOutcome(f, deps)} :
          ret' = IF parsed.raised
                 THEN Raised("parse_file", e, "", "", NoFail, parsed.error, parsed.at, <<>>)
                 ELSE [Returned("parse_file", e, parsed.title, "", "dict", 0, 0, <<>>)
                          EXCEPT !.out = [content |-> parsed.content,
                                          title |-> parsed.title,
                                          format |-> parsed.format,
                                          file_path |-> parsed.file_path,
                                          char_count |-> Len(parsed.content)]]
    /\ hist' = Remember(hist, ret', {})
    /\ UNCHANGED <<engines, metadata, disk, index, collExists, stale, pin, pout,
                   folder, deps, storyVars>>

\* StyleRAG.add_reference_from_file(file_path, title, author, chunk_size,
\* max_chunks)
AddReferenceFromFile(e, f, title, author, chunk_size, max_chunks) ==
    /\ \E o \in {FromFileOutcome(Stores, e, f, deps, title, author, chunk_size,
                                   max_chunks)} :
            /\ StoresBecome(o.st)
            /\ ret' = IF o.raised
                      THEN Raised("add_reference_from_file", e, "", "", NoFail,
                                  o.error, o.at, o.calls)
                      ELSE [Returned("add_reference_from_file", e, o.title,
                                     RefId(o.title), "dict", o.chunks_added,
                                     o.total_chars, o.calls)
                               EXCEPT !.out = [source_file |-> o.source_file,
                                               source_format |-> o.source_format]]
    /\ hist' = Remember(hist, ret', {})
    /\ UNCHANGED <<engines, pin, pout, folder, deps, storyVars>>

\* the files that folder.glob("*" + ext) and folder.glob("*" + ext.upper())
\* find, for the three extensions; the patterns match the case of the name
Glob(files) ==
    {f \in files : f.ext \in supported_extensions
                        \cup {".TXT", ".PDF", ".EPUB"}}

\* the orders in which a set can be iterated
Orders(S) ==
    {o \in [S -> 1..Cardinality(S)] : \A x, y \in S : x # y => o[x] # o[y]}

\* the orders in which scan_folder can meet the files: the extensions in the
\* order of the set supported_extensions, for each the files glob finds for
\* the lower-case pattern, then those for the upper-case pattern, each glob
\* in the order of the directory
ScanOrders(files) ==
    {s \in [1..Cardinality(Glob(files)) -> Glob(files)] :
        /\ \A i, j \in DOMAIN s : i # j => s[i] # s[j]
        /\ \E o \in Orders(supported_extensions) :
                \A i, j \in DOMAIN s :
                    i < j =>
                        2 * o[Lower(s[i].ext)] + (IF s[i].ext = Lower(s[i].ext) THEN 0 ELSE 1)
                            <= 2 * o[Lower(s[j].ext)]
                                + (IF s[j].ext = Lower(s[j].ext) THEN 0 ELSE 1)}

\* the check of the file against the Catalog left out
AlreadyCataloged_Never(references, f) == FALSE

\* the ref_id of the title that is the stem of the file name is in the
\* Catalog (lines 747-750)
AlreadyCataloged(references, f) == RefId(f.stem) \in DOMAIN references

\* a failure never ends the batch
StopsBatch_Never(raised, skip_errors) == FALSE

\* the file failed and the caller asked for fail-fast (line 773)
StopsBatch(raised, skip_errors) == raised /\ ~skip_errors

\* results of scan_folder before the first file
NoResults(total_files) ==
    [total_files |-> total_files, success |-> <<>>, failed |-> <<>>,
     skipped |-> <<>>, processed |-> <<>>, raised |-> FALSE]

\* a failed file left out of the results
Imported_DropsFailed(res, f, o) ==
    IF o.raised THEN [res EXCEPT !.processed = Append(@, FileName(f))]
    ELSE [res EXCEPT !.success = Append(@, [title |-> o.title,
                                            chunks_added |-> o.chunks_added,
                                            total_chars |-> o.total_chars,
                                            source_file |-> o.source_file,
                                            source_format |-> o.source_format]),
                     !.processed = Append(@, FileName(f))]

\* the body of the loop of scan_folder for file f when it is not skipped: o
\* is the outcome of add_reference_from_file
Imported(res, f, o) ==
    IF o.raised
    THEN [res EXCEPT !.failed = Append(@, [file |-> FileName(f), error |-> o.error]),
                     !.processed = Append(@, FileName(f))]
    ELSE [res EXCEPT !.success = Append(@, [title |-> o.title,
                                            chunks_added |-> o.chunks_added,
                                            total_chars |-> o.total_chars,
                                            source_file |-> o.source_file,
                                            source_format |-> o.source_format]),
                     !.processed = Append(@, FileName(f))]

\* the file recorded as skipped
Skipped(res, f) ==
    [res EXCEPT !.skipped = Append(@, [file |-> FileName(f), reason |-> "exists"])]

RECURSIVE ScanFiles(_, _, _, _, _, _, _, _, _)
RECURSIVE ScanNext(_, _, _, _, _, _, _, _, _)
\* the loop of scan_folder (lines 744-774) over files, from the stores st
\* and the results res: the stores and the results it ends with
ScanFiles(st, e, files, d, author, chunk_size, max_chunks, skip_errors, res) ==
    IF files = <<>> THEN [st |-> st, res |-> res]
    ELSE IF AlreadyCataloged(st.metadata[e], Head(files))
    THEN ScanFiles(st, e, Tail(files), d, author, chunk_size, max_chunks, skip_errors,
                   Skipped(res, Head(files)))
    ELSE ScanNext(FromFileOutcome(st, e, Head(files), d, None, author, chunk_size,
                                  max_chunks),
                  e, files, d, author, chunk_size, max_chunks, skip_errors, res)

\* after add_reference_from_file on the first of files with outcome o: the
\* loop goes on, or ends by raising when the file failed and skip_errors is
\* False
ScanNext(o, e, files, d, author, chunk_size, max_chunks, skip_errors, res) ==
    IF StopsBatch(o.raised, skip_errors)
    THEN [st |-> o.st, res |-> [Imported(res, Head(files), o) EXCEPT !.raised = TRUE]]
    ELSE ScanFiles(o.st, e, Tail(files), d, author, chunk_size, max_chunks,
                   skip_errors, Imported(res, Head(files), o))

\* StyleRAG.scan_folder(folder_path, author, chunk_size, max_chunks,
\* skip_errors) on a folder that exists
ScanFolder(e, author, chunk_size, max_chunks, skip_errors) ==
    /\ \E files \in ScanOrders(folder) :
       \E r \in {ScanFiles(Stores, e, files, deps, author, chunk_size, max_chunks,
                           skip_errors, NoResults(Len(files)))} :
            /\ StoresBecome(r.st)
            /\ ret' = IF r.res.raised
                      THEN [Raised("scan_folder", e, "", "", NoFail, "StyleRAGError",
                                   "add_reference_from_file", <<>>)
                               EXCEPT !.out = [skip_errors |-> skip_errors,
                                               files |-> files,
                                               processed |-> r.res.processed,
                                               success |-> r.res.success]]
                      ELSE [Returned("scan_folder", e, "", "", "dict", 0, 0, <<>>)
                               EXCEPT !.out = [skip_errors |-> skip_errors,
                                               files |-> files,
                                               processed |-> r.res.processed,
                                               total_files |-> r.res.total_files,
                                               success |-> r.res.success,
                                               failed |-> r.res.failed,
                                               skipped |-> r.res.skipped,
                                               success_count |-> Len(r.res.success),
                                               failed_count |-> Len(r.res.failed),
                                               skipped_count |-> Len(r.res.skipped)]]
    /\ hist' = Remember(hist, ret', {})
    /\ UNCHANGED <<engines, pin, pout, folder, deps, storyVars>>

\* the list list_references returns, as the set of its dicts
ListReferences(references) ==
    {[k \in DOMAIN references[ref_id] \cup {"ref_id"} |->
        IF k = "ref_id" THEN ref_id ELSE references[ref_id][k]] :
            ref_id \in DOMAIN references}

\* StyleRAG.__init__ on the same project path, replacing instance e: the
\* collection is opened or created, then metadata.json is loaded; json.load
\* raises on a truncated file and then there is no new instance
Construct(e, fail) ==
    /\ IF ~deps.chromadb \/ ~deps.sentence_transformers
       THEN /\ fail = NoFail
            /\ UNCHANGED <<engines, metadata, disk, index, collExists, stale>>
            /\ ret' = Raised("construct", e, "", "", fail, "DependencyError",
                             "__init__", <<>>)
       ELSE /\ fail \in {NoFail, "client.get_or_create_collection"}
            /\ IF fail # NoFail
               THEN /\ UNCHANGED <<engines, metadata, disk, index, collExists, stale>>
                    /\ ret' = Raised("construct", e, "", "", fail, "Exception",
                                     "client.get_or_create_collection",
                                     <<"client.get_or_create_collection">>)
               ELSE IF disk.file = "truncated"
               THEN /\ collExists' = TRUE
                    /\ UNCHANGED <<engines, metadata, disk, index, stale>>
                    /\ ret' = Raised("construct", e, "", "", fail, "JSONDecodeError",
                                     "_load_metadata",
                                     <<"client.get_or_create_collection", "_load_metadata">>)
               ELSE /\ collExists' = TRUE
                    /\ stale' = stale \ {e}
                    /\ engines' = engines \cup {e}
                    /\ metadata' = Put(metadata, e, LoadMetadata(disk))
                    /\ UNCHANGED <<disk, index>>
                    /\ ret' = Returned("construct", e, "", "", "StyleRAG", 0, 0,
                                       <<"client.get_or_create_collection", "_load_metadata">>)
    /\ hist' = Remember(hist, ret', {})
    /\ UNCHANGED <<pin, pout, folder, deps, storyVars>>

-----------------------------------------------------------------------------
(* The project state manager (src/story_engine.py, SnowflakeEngine).  A    *)
(* project is a folder of the workspace holding metadata.json and the      *)
(* step files; the time stamps, the settings, the character files and the  *)
(* scene list are left out.  json.dump followed by json.load gives back    *)
(* the integers, strings and lists the metadata is made of.                *)

\* str.lower() on the letters the titles of the model are made of
LowerChar(c) == CASE c = "A" -> "a" [] c = "B" -> "b" [] OTHER -> c

\* str.isalnum() on the characters the titles of the model are made of
IsAlnum(c) == c \in {"a", "b", "A", "B"}

\* the folder of a title: a character that is neither alphanumeric nor one
\* of ' ', '-', '_' becomes '_', then a space becomes '_', then lower case
FolderName(title) ==
    [i \in 1..Len(title) |->
        LET kept == IF IsAlnum(title[i]) \/ title[i] \in {SP, "-", "_"}
                    THEN title[i] ELSE "_"
        IN  LowerChar(IF kept = SP THEN "_" ELSE kept)]

\* self.current_project: None, or the path of a project folder
NoProject == <<>>
ProjectPath(folder_name) == <<folder_name>>

\* the metadata init_project writes
NewMetadata(title) ==
    [title |-> title, current_step |-> 0, completed_steps |-> <<>>,
     disasters |-> <<>>]

\* the text save_step_output writes, piece by piece
StepFileText(step_number, content, step_name) ==
    <<"# Step ", step_number>>
        \o (IF Truthy(step_name) THEN <<": ", step_name>> ELSE <<>>)
        \o <<"\n\nGenerated: ", "now", "\n\n", "---\n\n", content>>

SReturned(op, arg, result) ==
    [op |-> op, arg |-> arg, raised |-> FALSE, error |-> "", result |-> result]

SRaised(op, arg, error) ==
    [op |-> op, arg |-> arg, raised |-> TRUE, error |-> error, result |-> NoValue]

\* the guard every operation on a project starts with
NoProjectLoaded(op, arg) ==
    /\ current_project = NoProject
    /\ sret' = SRaised(op, arg, "ValueError")
    /\ UNCHANGED <<workspace, current_project>>

\* the files of the current project
CurrentFiles == workspace[current_project[1]]

\* init_project: the folders are made if missing (the step files of an
\* existing folder stay), metadata.json is written anew
InitProject(title) ==
    /\ \E folder_name \in {FolderName(title)} :
        /\ workspace' = Put(workspace, folder_name,
                            [metadata |-> NewMetadata(title),
                             steps |-> IF folder_name \in DOMAIN workspace
                                       THEN workspace[folder_name].steps
                                       ELSE EmptyDict])
        /\ current_project' = ProjectPath(folder_name)
    /\ sret' = SReturned("init_project", title, NewMetadata(title))
    /\ UNCHANGED <<ragVars, pureVars, envVars>>

\* load_project: None when the folder has no metadata.json
LoadProject(title) ==
    /\ \E folder_name \in {FolderName(title)} :
        IF folder_name \notin DOMAIN workspace
        THEN /\ sret' = SReturned("load_project", title, None)
             /\ UNCHANGED current_project
        ELSE /\ sret' = SReturned("load_project", title,
                                  workspace[folder_name].metadata)
             /\ current_project' = ProjectPath(folder_name)
    /\ UNCHANGED <<workspace, ragVars, pureVars, envVars>>

\* save_step_output: writes steps/step_NN.md and nothing else
SaveStepOutput(step_number, content, step_name) ==
    /\ \/ NoProjectLoaded("save_step_output", step_number)
       \/ /\ current_project # NoProject
          /\ workspace' =
                [workspace EXCEPT ![current_project[1]].steps =
                    Put(@, step_number,
                        StepFileText(step_number, content, step_name))]
          /\ sret' = SReturned("save_step_output", step_number, None)
          /\ UNCHANGED current_project
    /\ UNCHANGED <<ragVars, pureVars, envVars>>

\* get_step_output: the text of the step file, read from the file on every
\* call, or None when there is no such file
GetStepOutput(step_number) ==
    /\ \/ NoProjectLoaded("get_step_output", step_number)
       \/ /\ current_project # NoProject
          /\ sret' = SReturned("get_step_output", step_number,
                        IF step_number \in DOMAIN CurrentFiles.steps
                        THEN [text |-> CurrentFiles.steps[step_number],
                              from |-> "file"]
                        ELSE [text |-> <<>>, from |-> "None"])
          /\ UNCHANGED <<workspace, current_project>>
    /\ UNCHANGED <<ragVars, pureVars, envVars>>


\* next(i for i, d in enumerate(disasters) if d["level"] == level): the
\* first such index, 0 standing for None
ExistingIdx(disasters, disaster_level) ==
    LET found == {i \in 1..Len(disasters) : disasters[i].level = disaster_level}
    IN  IF found = {} THEN 0 ELSE CHOOSE i \in found : \A j \in found : i <= j

\* the list left as the replace or append made it
SortByLevel_Unsorted(disasters) == disasters

RECURSIVE SortByLevel(_)
\* list.sort(key=level): ascending, entries of equal level keep their order
SortByLevel(disasters) ==
    IF disasters = <<>> THEN <<>>
    ELSE LET low == CHOOSE i \in 1..Len(disasters) :
                        \A j \in 1..Len(disasters) :
                            \/ disasters[i].level < disasters[j].level
                            \/ disasters[i].level = disasters[j].level /\ i <= j
         IN  <<disasters[low]>>
                \o SortByLevel(SubSeq(disasters, 1, low - 1)
                               \o SubSeq(disasters, low + 1, Len(disasters)))

\* the disasters list log_disaster writes back
LoggedDisasters(disasters, disaster_level, description) ==
    LET disaster_entry == [level |-> disaster_level, description |-> description]
        existing_idx == ExistingIdx(disasters, disaster_level)
    IN  SortByLevel(IF existing_idx # 0
                    THEN [disasters EXCEPT ![existing_idx] = disaster_entry]
                    ELSE Append(disasters, disaster_entry))

\* log_disaster: reads metadata.json, replaces or appends, sorts, writes
LogDisaster(disaster_level, description) ==
    /\ \/ NoProjectLoaded("log_disaster", <<disaster_level, description>>)
       \/ /\ current_project # NoProject
          /\ workspace' =
                [workspace EXCEPT ![current_project[1]].metadata.disasters =
                    LoggedDisasters(@, disaster_level, description)]
          /\ sret' = SReturned("log_disaster", <<disaster_level, description>>, None)
          /\ UNCHANGED current_project
    /\ UNCHANGED <<ragVars, pureVars, envVars>>

\* range(1, 11): the step numbers get_status looks for
StatusSteps == 1..10

\* get_status: current_step from metadata.json, completed_steps from the
\* step files that exist
Status(files) ==
    [project_title |-> files.metadata.title,
     current_step |-> files.metadata.current_step,
     completed_steps |-> StatusSteps \cap DOMAIN files.steps,
     disasters_logged |-> Len(files.metadata.disasters)]

GetStatus ==
    /\ \/ NoProjectLoaded("get_status", None)
       \/ /\ current_project # NoProject
          /\ sret' = SReturned("get_status", None, Status(CurrentFiles))
          /\ UNCHANGED <<workspace, current_project>>
    /\ UNCHANGED <<ragVars, pureVars, envVars>>

\* the public methods of SnowflakeEngine
EngineMethods ==
    {"init_project", "load_project", "update_metadata", "update_character",
     "get_character", "get_all_characters", "update_scene_list",
     "get_scene_list", "save_step_output", "get_step_output", "log_disaster",
     "get_context", "get_status"}

\* a call of a method the class does not define raises AttributeError and
\* changes nothing
CallUndefined(method) ==
    /\ method \notin EngineMethods
    /\ sret' = SRaised(method, None, "AttributeError")
    /\ UNCHANGED <<workspace, current_project, ragVars, pureVars, envVars>>

\* the engine after SnowflakeEngine(workspace_dir) on an empty workspace
InitStory ==
    /\ workspace = EmptyDict
    /\ current_project = NoProject
    /\ sret = SReturned("__init__", None, None)

-----------------------------------------------------------------------------
(* One instance on a new project *)

InitStores(E) ==
    /\ engines = E
    /\ metadata = [e \in E |-> EmptyDict]
    /\ disk = NoFile
    /\ index = EmptyDict
    /\ collExists = TRUE
    /\ stale = {}
    /\ ret = Returned("construct", 1, "", "", "StyleRAG", 0, 0,
                      <<"client.get_or_create_collection", "_load_metadata">>)
    /\ hist = [raised |-> FALSE, removed |-> {}]

Init ==
    /\ InitStores({1})
    /\ InitStory
    /\ folder = EmptyFolder
    /\ deps = AllAvailable
    /\ pin = NotRun
    /\ pout = NoOutput

Next ==
    \/ \E e \in engines, fail \in Failures, a \in AddCalls :
            AddReferenceNovel(e, a.title, a.content, a.author, a.chunk_size,
                              a.max_chunks, fail)
    \/ \E e \in engines, fail \in Failures, ref_id \in RefIds :
            RemoveReference(e, ref_id, fail)
    \/ \E e \in engines, fail \in Failures : ClearAllReferences(e, fail)
    \/ \E e \in engines, fail \in Failures : Construct(e, fail)

Spec == Init /\ [][Next]_vars

-----------------------------------------------------------------------------
(* Two instances opened on the same new project, no failure of the         *)
(* environment: each keeps the Catalog it loaded when it was constructed   *)

InitRace ==
    /\ InitStores({1, 2})
    /\ InitStory
    /\ folder = EmptyFolder
    /\ deps = AllAvailable
    /\ pin = NotRun
    /\ pout = NoOutput

\* one content for each of two titles
RaceCalls == {a \in AddCalls : a.author = "au"}

NextRace ==
    \/ \E e \in engines, a \in RaceCalls :
            AddReferenceNovel(e, a.title, a.content, a.author, a.chunk_size,
                              a.max_chunks, NoFail)
    \/ \E e \in engines, ref_id \in RefIds : RemoveReference(e, ref_id, NoFail)
    \/ \E e \in engines : Construct(e, NoFail)

RaceSpec == InitRace /\ [][NextRace]_vars

-----------------------------------------------------------------------------
(* One instance in an environment that does not fail: the operations that  *)
(* change the stores and the operations that read them                     *)

\* n_results=3 and n_samples=3, the defaults
DefaultResults == 3

\* the retrieve_style_samples calls of the model: with and without each
\* filter, with fewer results asked for than there are chunks
RetrieveCalls ==
    {[query |-> <<"y", "y">>, n_results |-> DefaultResults, chunk_type |-> None,
      ref_id |-> None],
     [query |-> <<"x", "!">>, n_results |-> 1, chunk_type |-> None, ref_id |-> None],
     [query |-> <<"y", "y">>, n_results |-> 2, chunk_type |-> "dialogue",
      ref_id |-> None],
     [query |-> <<"x", "!">>, n_results |-> DefaultResults, chunk_type |-> "",
      ref_id |-> "a986d9ee"],
     [query |-> <<"y", "y">>, n_results |-> DefaultResults, chunk_type |-> "mixed",
      ref_id |-> "0cc175b9"]}

\* the scene types of type_mapping, none, and one that type_mapping lacks
SceneTypes == {"dialogue", "action", "narrative", "description", None, "battle"}

NextQuery ==
    \/ \E e \in engines, a \in AddCalls :
            AddReferenceNovel(e, a.title, a.content, a.author, a.chunk_size,
                              a.max_chunks, NoFail)
    \/ \E e \in engines, ref_id \in RefIds : RemoveReference(e, ref_id, NoFail)
    \/ \E e \in engines : ClearAllReferences(e, NoFail)
    \/ \E e \in engines : GetStatistics(e)
    \/ \E e \in engines, c \in RetrieveCalls, fail \in QueryFailures :
            RetrieveStyleSamples(e, c.query, c.n_results, c.chunk_type, c.ref_id, fail)
    \/ \E e \in engines, scene_type \in SceneTypes, fail \in QueryFailures :
            GetStyleContext(e, <<"y", "y">>, scene_type, 2, fail)

QuerySpec == Init /\ [][NextQuery]_vars

-----------------------------------------------------------------------------
(* Import from files: the module is imported with some of its optional     *)
(* dependencies missing, an instance is constructed, files are parsed and  *)
(* imported one by one or as a folder                                      *)

\* the most files in a folder
MaxFiles == 3

\* the files a folder is made of: two titles with the same ref_id, three
\* files with the same stem, a damaged file, a file with no text, an
\* upper-case extension and an extension that is not supported
FilePool ==
    {[stem |-> "kot", ext |-> ".txt", state |-> "ok", content |-> ThreeChunkText],
     [stem |-> "bwma", ext |-> ".txt", state |-> "ok", content |-> TwoChunkText],
     [stem |-> "a", ext |-> ".pdf", state |-> "ok", content |-> TwoChunkText],
     [stem |-> "a", ext |-> ".epub", state |-> "damaged", content |-> <<>>],
     [stem |-> "a", ext |-> ".TXT", state |-> "ok", content |-> <<>>],
     [stem |-> "notes", ext |-> ".doc", state |-> "ok", content |-> OneChunkText]}

Folders == {F \in SUBSET FilePool : Cardinality(F) <= MaxFiles}

\* a path at which there is no file
MissingFile == [stem |-> "kot", ext |-> ".pdf", state |-> "missing", content |-> <<>>]

\* every dependency installed, or one missing: one that __init__ checks,
\* the PDF parser, one of the two that the EPUB parser needs
DepsChoices ==
    {AllAvailable}
        \cup {[AllAvailable EXCEPT ![d] = FALSE] : d \in {"chromadb", "PyPDF2", "bs4"}}

\* before the first instance is constructed
NotConstructed ==
    /\ engines = {}
    /\ metadata = EmptyDict
    /\ disk = NoFile
    /\ index = EmptyDict
    /\ collExists = FALSE
    /\ stale = {}
    /\ ret = Returned("import", 0, "", "", "module", 0, 0, <<>>)
    /\ hist = [raised |-> FALSE, removed |-> {}]

InitImport ==
    /\ NotConstructed
    /\ InitStory
    /\ folder \in Folders
    /\ deps \in DepsChoices
    /\ pin = NotRun
    /\ pout = NoOutput

NextImport ==
    \/ \E e \in {1} : Construct(e, NoFail)
    \/ \E e \in engines, f \in folder \cup {MissingFile} : ParseFile(e, f)
    \/ \E e \in engines, f \in folder \cup {MissingFile}, title \in {None, "kot"} :
            AddReferenceFromFile(e, f, title, None, 2, DefaultMaxChunks)
    \/ \E e \in engines, skip_errors \in BOOLEAN :
            ScanFolder(e, "au", 2, DefaultMaxChunks, skip_errors)

ImportSpec == InitImport /\ [][NextImport]_vars

-----------------------------------------------------------------------------
(* The Segmenter and the Classifier as functions of their input *)

MaxTextLen == 5
MaxChunkSize == 2
MaxParaLen == 5
MaxQuotes == 2
MaxVerbs == 5

\* all texts of at most n characters of A
TextsUpTo(A, n) == UNION {[1..k -> A] : k \in 0..n}

\* an ordinary character, a space, a newline, a stop of both classes and a
\* Latin stop
ChunkAlphabet == {"x", SP, NL, "!", "."}

\* two lines of lengths around the size below which the trailing buffer is
\* dropped, under a chunk size that separates them and one that joins them
TailLengths == {20, 25, 26, 30}
TailChunkSizes == {20, 100}
TailInputs ==
    {[fn |-> "chunk", text |-> Repeat("x", a) \o <<NL>> \o Repeat("x", b),
      chunk_size |-> n] : a \in TailLengths, b \in TailLengths, n \in TailChunkSizes}

ChunkInputs ==
    {[fn |-> "chunk", text |-> t, chunk_size |-> n] :
        t \in TextsUpTo(ChunkAlphabet, MaxTextLen), n \in 1..MaxChunkSize}
        \cup TailInputs

SplitAlphabet == {"x", SP, "!", ".", DQ}

\* what _chunk_text passes to _split_long_paragraph: a stripped paragraph of
\* more than 2 * chunk_size characters
SplitInputs ==
    UNION {{[fn |-> "split", text |-> t, chunk_size |-> n] :
                t \in {u \in TextsUpTo(SplitAlphabet, MaxParaLen) :
                          u # <<>> /\ Strip(u) = u /\ Len(u) > 2 * n}} :
            n \in 1..MaxChunkSize}

\* lengths around the thresholds of the Classifier
FillerLengths == {0, 5, 19, 27, 28, 29, 30} \cup (295..301)

\* q quotation marks, v action verbs, n other characters
ClassifierText(q, v, n) ==
    Repeat(DQ, q) \o [k \in 1..v |-> action_verbs[((k - 1) % Len(action_verbs)) + 1]]
                  \o Repeat("x", n)

ClassifyInputs ==
    {[fn |-> "classify", text |-> ClassifierText(q, v, n), chunk_size |-> 0] :
        q \in 0..MaxQuotes, v \in 0..MaxVerbs, n \in FillerLengths}

ApplyChunkText ==
    /\ pin.fn = "chunk"
    /\ ~pout.done
    /\ pout' = [NoOutput EXCEPT !.done = TRUE,
                                !.chunks = ChunkText(pin.text, pin.chunk_size)]
    /\ UNCHANGED <<engines, metadata, disk, index, collExists, stale, ret, hist, pin,
                 folder, deps, storyVars>>

ApplySplitLongParagraph ==
    /\ pin.fn = "split"
    /\ ~pout.done
    /\ pout' = [NoOutput EXCEPT !.done = TRUE,
                                !.subs = SplitLongParagraph(pin.text, pin.chunk_size)]
    /\ UNCHANGED <<engines, metadata, disk, index, collExists, stale, ret, hist, pin,
                 folder, deps, storyVars>>

ApplyClassifyChunkType ==
    /\ pin.fn = "classify"
    /\ ~pout.done
    /\ pout' = [NoOutput EXCEPT !.done = TRUE, !.type = ClassifyChunkType(pin.text)]
    /\ UNCHANGED <<engines, metadata, disk, index, collExists, stale, ret, hist, pin,
                 folder, deps, storyVars>>

InitPure ==
    /\ InitStores({1})
    /\ InitStory
    /\ folder = EmptyFolder
    /\ deps = AllAvailable
    /\ pin \in ChunkInputs \cup SplitInputs \cup ClassifyInputs
    /\ pout = NoOutput

NextPure == ApplyChunkText \/ ApplySplitLongParagraph \/ ApplyClassifyChunkType

PureSpec == InitPure /\ [][NextPure]_vars

-----------------------------------------------------------------------------
(* The project state manager on a workspace of a few projects *)

MaxStep == 1
MaxLevel == 2

\* "A b" and "a_b" name the same folder
StoryTitles == {<<"A", SP, "b">>, <<"a", "_", "b">>, <<"b">>}

SaveCalls ==
    {[step_number |-> 1, content |-> "c1", step_name |-> "Hook"],
     [step_number |-> 1, content |-> "c2", step_name |-> None]}
        \cup {[step_number |-> n, content |-> "c1", step_name |-> None] :
                n \in 2..MaxStep}

LogCalls ==
    {[level |-> l, description |-> "d1"] : l \in 1..MaxLevel}
        \cup {[level |-> 1, description |-> "d2"]}

InitEngine ==
    /\ InitStores({1})
    /\ InitStory
    /\ folder = EmptyFolder
    /\ deps = AllAvailable
    /\ pin = NotRun
    /\ pout = NoOutput

NextStory ==
    \/ \E title \in StoryTitles : InitProject(title)
    \/ \E title \in StoryTitles : LoadProject(title)
    \/ \E s \in SaveCalls : SaveStepOutput(s.step_number, s.content, s.step_name)
    \/ \E step_number \in 1..MaxStep : GetStepOutput(step_number)
    \/ \E d \in LogCalls : LogDisaster(d.level, d.description)
    \/ GetStatus
    \/ CallUndefined("get_cache_stats")

StorySpec == InitEngine /\ [][NextStory]_vars

-----------------------------------------------------------------------------
(* Properties of the Catalog and the index *)

\* the ref_ids that the Catalog of e, the file or the index mention
KnownRefIds(e) ==
    DOMAIN metadata[e] \cup DOMAIN disk.references
        \cup {index[id].metadata.ref_id : id \in DOMAIN index} \cup RefIds

\* the ids ref_id_chunk_0 .. ref_id_chunk_(n-1)
ChunkIdsUpTo(ref_id, n) == {ChunkId(ref_id, i) : i \in 0..(n - 1)}

\* the sum of the char_count metadata of the chunks ids
RECURSIVE SumCharCount(_)
SumCharCount(ids) ==
    IF ids = {} THEN 0
    ELSE LET id == CHOOSE x \in ids : TRUE
         IN  index[id].metadata.char_count + SumCharCount(ids \ {id})

\* C1: with one instance and no call that raised, a ref_id is in the Catalog
\* (in memory and in the file) exactly when the index holds chunks with that
\* ref_id, and then the index holds exactly ref_id_chunk_0 ..
\* ref_id_chunk_(chunk_count-1).
C1_CatalogIffChunks ==
    ~hist.raised =>
        \A e \in engines : \A r \in KnownRefIds(e) :
            /\ r \in DOMAIN metadata[e] <=> CollectionGet(index, r) # {}
            /\ r \in DOMAIN LoadMetadata(disk) <=> r \in DOMAIN metadata[e]
            /\ r \in DOMAIN metadata[e] =>
                   CollectionGet(index, r) = ChunkIdsUpTo(r, metadata[e][r].chunk_count)

\* two References were added and one of them removed, nothing raised
C1_Witness ==
    /\ ~hist.raised
    /\ ret.op = "remove" /\ ret.result = "True"
    /\ DOMAIN metadata[1] # {}
    /\ CollectionGet(index, ret.ref_id) = {}

\* C2: when _save_metadata fails in add_reference_novel after the upsert, the
\* index holds no chunk of a reference that the persisted Catalog does not
\* list once the call is over (the write was retried or the upsert undone).
C2_PersistFailureRepaired ==
    (ret.op = "add" /\ ret.raised /\ ret.at = "_save_metadata") =>
        (CollectionGet(index, ret.ref_id) # {} => ret.ref_id \in DOMAIN disk.references)

\* C3: when the embedding request or the upsert of add_reference_novel fails,
\* the call raises and neither the Catalog in memory nor the file changes.
C3_FailedUpsertWritesNoCatalog ==
    [][(/\ ret'.op = "add"
        /\ ret'.at # "duplicate"
        /\ \/ ret'.fail \in {"model.encode", "collection.add"}
           \/ ret'.at \in {"model.encode", "collection.add"})
       => (/\ ret'.raised
           /\ ret'.at \in {"model.encode", "collection.add"}
           /\ metadata' = metadata
           /\ disk' = disk
           /\ ret'.ref_id \notin DOMAIN metadata'[ret'.e])]_vars

\* an upsert failed while the Catalog lists another Reference
C3_Witness ==
    /\ ret.op = "add" /\ ret.raised /\ ret.fail = "collection.add"
    /\ ret.calls = <<"model.encode", "collection.add">>
    /\ DOMAIN metadata[1] # {}
    /\ ret.ref_id \notin DOMAIN metadata[1]

\* C4: add_reference_novel of a title whose ref_id is in the Catalog raises the
\* duplicate error whatever the author and the content, calls neither the
\* embedding nor the index, and leaves the Catalog and the index as they were.
C4_DuplicateRejected ==
    [][(ret'.op = "add" /\ ret'.ref_id \in DOMAIN metadata[ret'.e])
       => (/\ ret'.raised
           /\ ret'.error = "StyleRAGError" /\ ret'.at = "duplicate"
           /\ ret'.calls = <<>>
           /\ metadata' = metadata
           /\ disk' = disk
           /\ index' = index)]_vars

\* "bwma" was rejected because "kot", with another author and another
\* content, has its ref_id
C4_Witness ==
    /\ ret.op = "add" /\ ret.at = "duplicate" /\ ret.title = "bwma"
    /\ ret.ref_id \in DOMAIN metadata[1]
    /\ metadata[1][ret.ref_id].title = "kot"
    /\ CollectionGet(index, ret.ref_id) # {}

\* C5: a remove_reference of a cataloged ref_id that returns, returns True;
\* afterwards the Catalog (in memory and in the file) does not contain the
\* ref_id, the index contains none of its chunk ids, every other Reference's
\* entry and chunks are as before, and an add of the title is not a duplicate.
C5_RemoveUndoesAdd ==
    [][(ret'.op = "remove" /\ ret'.ref_id \in DOMAIN metadata[ret'.e] /\ ~ret'.raised)
       => LET e == ret'.e
              r == ret'.ref_id
          IN  /\ ret'.result = "True"
              /\ r \notin DOMAIN metadata'[e]
              /\ r \notin DOMAIN disk'.references
              /\ \A id \in DOMAIN index' : id[1] # r /\ index'[id].metadata.ref_id # r
              /\ DOMAIN metadata'[e] = DOMAIN metadata[e] \ {r}
              /\ \A o \in DOMAIN metadata'[e] : metadata'[e][o] = metadata[e][o]
              /\ DOMAIN index' = {id \in DOMAIN index : id[1] # r}
              /\ \A id \in DOMAIN index' : index'[id] = index[id]
              /\ ~IsDuplicate(metadata'[e], r)]_vars

\* a Reference was removed while another one stays in the Catalog and the index
C5_Witness ==
    /\ ret.op = "remove" /\ ret.result = "True"
    /\ ret.calls = <<"collection.get", "collection.delete", "_save_metadata">>
    /\ DOMAIN metadata[1] # {}
    /\ DOMAIN index # {}

\* C6: remove_reference of a ref_id that is not in the Catalog returns False,
\* does not raise, makes no call on the index and leaves the Catalog, the file
\* and the index as they were.
C6_RemoveAbsentReturnsFalse ==
    [][(ret'.op = "remove" /\ ret'.ref_id \notin DOMAIN metadata[ret'.e])
       => (/\ ~ret'.raised
           /\ ret'.result = "False"
           /\ ret'.calls = <<>>
           /\ metadata' = metadata
           /\ disk' = disk
           /\ index' = index)]_vars

\* False was returned for a ref_id whose chunks are in the index (left by an
\* add whose persist failed, before the instance was built again)
C6_Witness ==
    /\ ret.op = "remove" /\ ret.result = "False" /\ ~ret.raised
    /\ CollectionGet(index, ret.ref_id) # {}

\* C10: after an add_reference_novel that returned, the entry's chunk_count is
\* the returned chunks_added and the number of chunks of the Reference in the
\* index, and its total_chars is the sum of their char_count metadata.
C10_CountersMatchIndex ==
    (ret.op = "add" /\ ~ret.raised) =>
        LET entry == metadata[ret.e][ret.ref_id]
            ids == CollectionGet(index, ret.ref_id)
        IN  /\ entry.chunk_count = ret.chunks_added
            /\ entry.chunk_count = Cardinality(ids)
            /\ entry.total_chars = SumCharCount(ids)

-----------------------------------------------------------------------------
(* Properties of the Segmenter and the Classifier *)

\* the text without its whitespace
RemoveWs(text) == SelectSeq(text, LAMBDA ch : ~IsWs(ch))

\* s ends with sentence-ending punctuation, with or without a closing quote
EndsSentence(s) ==
    LET stops == CjkStops \cup LatinStops
        quotes == CjkCloseQuotes \cup LatinCloseQuotes
    IN  /\ s # <<>>
        /\ \/ s[Len(s)] \in stops
           \/ Len(s) >= 2 /\ s[Len(s)] \in quotes /\ s[Len(s) - 1] \in stops

\* sentence_endings matches nowhere in the text
NoSentenceEnd(text) == \A i \in 1..Len(text) : SentenceEndMatchEnd(text, i) = 0

\* C7: every chunk of _chunk_text has char_count <= 1.5 * chunk_size and a
\* text that is not empty.
C7_ChunkBound ==
    (pout.done /\ pin.fn = "chunk") =>
        \A k \in 1..Len(pout.chunks) :
            /\ 2 * pout.chunks[k].char_count <= 3 * pin.chunk_size
            /\ pout.chunks[k].text # <<>>

\* C8: the sub-chunks of _split_long_paragraph, concatenated in order, are the
\* paragraph but for whitespace; every sub-chunk before the last ends with the
\* sentence-ending punctuation of its last sentence; a paragraph without a
\* sentence terminator comes back as one unmodified sub-chunk.
C8_ForceSplitLossless ==
    (pout.done /\ pin.fn = "split") =>
        /\ RemoveWs(Concat(pout.subs)) = RemoveWs(pin.text)
        /\ \A k \in 1..(Len(pout.subs) - 1) : EndsSentence(pout.subs[k])
        /\ \A k \in 1..Len(pout.subs) : pout.subs[k] # <<>>
        /\ NoSentenceEnd(pin.text) => pout.subs = <<pin.text>>

\* a paragraph was split in several sub-chunks and lost whitespace
C8_Witness ==
    /\ pout.done /\ pin.fn = "split"
    /\ Len(pout.subs) >= 2
    /\ Len(Concat(pout.subs)) < Len(pin.text)
    /\ \E k \in 1..Len(pout.subs) : Len(pout.subs[k]) > pin.chunk_size

\* the category the policy gives: the ratio of quotation marks to the length
\* of the text, the action verbs, the length
PolicyType(text) ==
    LET lenOr1 == IF Len(text) > 1 THEN Len(text) ELSE 1
    IN  IF 10 * Count(text, DQ) > lenOr1 THEN "dialogue"
        ELSE IF ActionCount(text) > 3 THEN "action"
        ELSE IF Len(text) > 300 THEN "description"
        ELSE "mixed"

\* C9: _classify_chunk_type returns dialogue when the quotation marks are more
\* than 0.1 of the length of the text, else action when there are more than 3
\* occurrences of action verbs, else description when the text is longer than
\* 300, else mixed; a text with at most 0.1 quotation marks is never dialogue.
C9_ClassifierPolicy ==
    (pout.done /\ pin.fn = "classify") => pout.type = PolicyType(pin.text)

\* C12: when clear_all_references returns, the index and the Catalog, in
\* memory and in metadata.json, are empty, whatever the state before; an add
\* that follows is not rejected as a duplicate and an add of a title with
\* content succeeds; a second clear_all_references right after the first
\* leaves the stores as the first left them.
C12_ClearWipes ==
    [][/\ (ret'.op = "clear" /\ ~ret'.raised) =>
            /\ index' = EmptyDict
            /\ metadata'[ret'.e] = EmptyDict
            /\ disk' = JsonFile(EmptyDict)
            /\ (ret.op = "clear" /\ ~ret.raised) =>
                    <<metadata, disk, index, collExists, stale>>'
                        = <<metadata, disk, index, collExists, stale>>
       /\ (ret.op = "clear" /\ ~ret.raised /\ ret'.op = "add" /\ ret'.fail = NoFail) =>
            /\ ret'.at # "duplicate"
            /\ ret'.title \in {"kot", "bwma"} =>
                    /\ ~ret'.raised
                    /\ ret'.ref_id \in DOMAIN metadata'[ret'.e]
                    /\ ret'.ref_id \in DOMAIN disk'.references]_vars

C12_Witness ==
    /\ ret.op = "clear" /\ ~ret.raised
    /\ hist.raised
    /\ "a986d9ee" \in hist.removed
    /\ "0cc175b9" \in hist.removed

\* C19: the id of a chunk is its ref_id, "_chunk_" and its zero-based
\* position, which is the chunk_index of its metadata; the positions of a
\* Reference are contiguous from 0; an add that returns, for whatever
\* content and also after the Reference was removed, has stored
\* chunks_added chunks under the ids of the positions 0..chunks_added-1.
C19_ChunkIds ==
    /\ \A id \in DOMAIN index :
            LET m == index[id].metadata
            IN  /\ id = <<m.ref_id, "_chunk_", m.chunk_index>>
                /\ m.chunk_index >= 0
                /\ \A i \in 0..m.chunk_index :
                        <<m.ref_id, "_chunk_", i>> \in DOMAIN index
    /\ (ret.op = "add" /\ ~ret.raised) =>
            /\ \A i \in 0..(ret.chunks_added - 1) :
                    /\ <<ret.ref_id, "_chunk_", i>> \in DOMAIN index
                    /\ index[<<ret.ref_id, "_chunk_", i>>].metadata.chunk_index = i
            /\ ~hist.raised =>
                    CollectionGet(index, ret.ref_id) =
                        {<<ret.ref_id, "_chunk_", i>> : i \in 0..(ret.chunks_added - 1)}

C19_Witness ==
    /\ ret.op = "add" /\ ~ret.raised
    /\ ~hist.raised
    /\ ret.ref_id \in hist.removed
    /\ ret.chunks_added = 3

-----------------------------------------------------------------------------
(* Properties of the operations that read the stores *)

\* C11: after successful add, remove and clear operations on one instance,
\* get_statistics reports reference_count equal to the number of Catalog
\* entries, and total_chunks, the sum of the chunk_count values of the
\* Catalog, equal to collection_count, the number of records in the index.
C11_StatisticsAgree ==
    (ret.op = "get_statistics" /\ ~ret.raised) =>
        /\ ret.out.reference_count = Cardinality(DOMAIN metadata[ret.e])
        /\ ret.out.collection_count = Cardinality(DOMAIN index)
        /\ ret.out.total_chunks = ret.out.collection_count

C11_Witness ==
    /\ ret.op = "get_statistics" /\ ~ret.raised
    /\ hist.removed # {}
    /\ ret.out.reference_count = 2
    /\ ret.out.total_chunks = 5

\* the References that were removed or cleared and are not in the Catalog of
\* e now
Gone(e) == hist.removed \ DOMAIN metadata[e]

\* C16: retrieve_style_samples(query, n_results=k) returns at most k samples,
\* in the order the index delivered them, by non-decreasing distance, each
\* with text, metadata and distance, and no sample is a chunk of a Reference
\* that has been removed or cleared.
C16_RetrieveRanked ==
    (ret.op = "retrieve_style_samples" /\ ~ret.raised) =>
        LET samples == ret.out.samples
        IN  /\ Len(samples) <= ret.out.n_results
            /\ Len(samples) = Len(ret.out.ids)
            /\ \A i \in 1..Len(samples) :
                    /\ DOMAIN samples[i] = {"text", "metadata", "distance"}
                    /\ samples[i].text = index[ret.out.ids[i]].document
                    /\ samples[i].metadata = index[ret.out.ids[i]].metadata
                    /\ samples[i].metadata.ref_id \notin Gone(ret.e)
            /\ \A i, j \in 1..Len(samples) :
                    i < j => samples[i].distance <= samples[j].distance

C16_Witness ==
    /\ ret.op = "retrieve_style_samples" /\ ~ret.raised
    /\ Gone(ret.e) # {}
    /\ Len(ret.out.samples) = 1
    /\ ret.out.n_results = 1
    /\ Cardinality({id \in DOMAIN index : Matches(index[id].metadata, ret.out.where)}) > 1

\* C17: get_style_context queries with the chunk-type filter of the scene
\* type (dialogue and action as they are, narrative and description as
\* description, no filter for a missing or unknown scene type), and returns
\* the samples, their number as sample_count and every entry of the Catalog.
C17_StyleContext ==
    (ret.op = "get_style_context" /\ ~ret.raised) =>
        LET t == ret.out.scene_type
            where == ret.out.where
        IN  /\ t \in {"dialogue", "action"} =>
                    DOMAIN where = {"chunk_type"} /\ where["chunk_type"] = t
            /\ t \in {"narrative", "description"} =>
                    DOMAIN where = {"chunk_type"} /\ where["chunk_type"] = "description"
            /\ t \notin {"dialogue", "action", "narrative", "description"} =>
                    DOMAIN where = {}
            /\ \A i \in 1..Len(ret.out.samples) :
                    Matches(ret.out.samples[i].metadata, where)
            /\ ret.out.sample_count = Len(ret.out.samples)
            /\ \A k \in DOMAIN metadata[ret.e] :
                    metadata[ret.e][k] \in ret.out.references
            /\ Cardinality(ret.out.references) = Cardinality(DOMAIN metadata[ret.e])

C17_Witness ==
    /\ ret.op = "get_style_context" /\ ~ret.raised
    /\ ret.out.scene_type = "narrative"
    /\ ret.out.samples = <<>>
    /\ Cardinality(ret.out.references) = 2

-----------------------------------------------------------------------------
(* Properties of the import from files *)

\* how many entries of a list of dicts name the file under key
Mentions(list, key, f) ==
    Cardinality({i \in 1..Len(list) : list[i][key] = FileName(f)})

\* C13: scan_folder with skip_errors=True does not raise when files fail;
\* every file with the extension .txt, .pdf or .epub is in exactly one of
\* success, failed and skipped, success_count + failed_count + skipped_count
\* = total_files, and a file of an unsupported extension is in no list and
\* not counted in total_files.
C13_ScanAccountsForEveryFile ==
    (ret.op = "scan_folder" /\ ret.out.skip_errors) =>
        /\ ~ret.raised
        /\ ret.out.success_count + ret.out.failed_count + ret.out.skipped_count
                = ret.out.total_files
        /\ ret.out.success_count = Len(ret.out.success)
        /\ ret.out.failed_count = Len(ret.out.failed)
        /\ ret.out.skipped_count = Len(ret.out.skipped)
        /\ \A f \in folder :
                Mentions(ret.out.success, "source_file", f)
                    + Mentions(ret.out.failed, "file", f)
                    + Mentions(ret.out.skipped, "file", f)
                = IF Lower(f.ext) \in {".txt", ".pdf", ".epub"} THEN 1 ELSE 0
        /\ ret.out.total_files
                = Cardinality({f \in folder : Lower(f.ext) \in {".txt", ".pdf", ".epub"}})

C13_Witness ==
    /\ ret.op = "scan_folder" /\ ret.out.skip_errors /\ ~ret.raised
    /\ ret.out.failed_count = 1
    /\ ret.out.success_count = 1
    /\ ret.out.processed[1] = ret.out.failed[1].file
    /\ \E f \in folder : f.ext = ".doc"

\* C14: scan_folder skips, without calling add_reference_from_file, every
\* file whose stem has its ref_id in the Catalog, and records it as skipped;
\* a scan_folder right after a scan_folder in which every file succeeded
\* reports every file as skipped and changes neither the Catalog nor the
\* index.
C14_ScanSkipsCataloged ==
    [][(ret'.op = "scan_folder") =>
        /\ \A i \in 1..Len(ret'.out.files) :
                RefId(ret'.out.files[i].stem) \in DOMAIN metadata[ret'.e] =>
                    /\ \A k \in 1..Len(ret'.out.processed) :
                            ret'.out.processed[k] # FileName(ret'.out.files[i])
                    /\ ~ret'.raised =>
                            Mentions(ret'.out.skipped, "file", ret'.out.files[i]) = 1
        /\ (/\ ret.op = "scan_folder" /\ ~ret.raised
            /\ ret.out.success_count = ret.out.total_files) =>
                /\ ~ret'.raised
                /\ ret'.out.skipped_count = ret'.out.total_files
                /\ ret'.out.total_files = ret.out.total_files
                /\ ret'.out.success = <<>> /\ ret'.out.failed = <<>>
                /\ ret'.out.processed = <<>>
                /\ <<metadata, disk, index>>' = <<metadata, disk, index>>]_vars

C14_Witness ==
    /\ ret.op = "scan_folder" /\ ~ret.raised
    /\ ret.out.total_files = 2
    /\ ret.out.skipped_count = 2
    /\ Cardinality(DOMAIN metadata[ret.e]) = 2
    /\ Cardinality(DOMAIN index) = 5

\* C15: scan_folder with skip_errors=False raises at the first file whose
\* import fails and returns only when no file failed; no file after the
\* failed one is processed, and the References imported from the files
\* before it are in the Catalog, in metadata.json and in the index, and are
\* all that the call added.
C15_FailFast ==
    [][(ret'.op = "scan_folder" /\ ~ret'.out.skip_errors) =>
        /\ ~ret'.raised =>
                Len(ret'.out.failed) = 0
        /\ ret'.raised =>
            LET out == ret'.out
                last == out.processed[Len(out.processed)]
                at == CHOOSE i \in 1..Len(out.files) : FileName(out.files[i]) = last
            IN  /\ Len(out.processed) = Len(out.success) + 1
                /\ \A k \in 1..Len(out.success) :
                        out.processed[k] = out.success[k].source_file
                /\ \A i \in (at + 1)..Len(out.files) :
                        \A k \in 1..Len(out.processed) :
                            out.processed[k] # FileName(out.files[i])
                /\ \A k \in 1..Len(out.success) :
                        /\ RefId(out.success[k].title) \notin DOMAIN metadata[ret'.e]
                        /\ RefId(out.success[k].title) \in DOMAIN metadata'[ret'.e]
                        /\ RefId(out.success[k].title) \in DOMAIN disk'.references
                        /\ Cardinality(CollectionGet(index', RefId(out.success[k].title)))
                                = out.success[k].chunks_added
                /\ DOMAIN metadata'[ret'.e] =
                        DOMAIN metadata[ret'.e]
                            \cup {RefId(out.success[k].title) : k \in 1..Len(out.success)}]_vars

C15_Witness ==
    /\ ret.op = "scan_folder" /\ ret.raised
    /\ ~ret.out.skip_errors
    /\ Len(ret.out.files) = 3
    /\ Len(ret.out.processed) = 2
    /\ Len(ret.out.success) = 1
    /\ RefId(ret.out.success[1].title) \in DOMAIN metadata[ret.e]

\* C18: a missing dependency is reported by the constructor alone: no
\* operation of a constructed instance raises DependencyError.
C18_DependencyOnlyAtConstruction ==
    (ret.raised /\ ret.error = "DependencyError") => ret.op = "construct"

\* C20: after add_reference_from_file returns, list_references shows the
\* Reference with the path and the format of the file it came from.
C20_SourceInCatalog ==
    (ret.op = "add_reference_from_file" /\ ~ret.raised) =>
        \E r \in ListReferences(metadata[ret.e]) :
            /\ r["ref_id"] = ret.ref_id
            /\ "source_file" \in DOMAIN r
            /\ "source_format" \in DOMAIN r
            /\ r["source_file"] = ret.out.source_file
            /\ r["source_format"] = ret.out.source_format

-----------------------------------------------------------------------------
(* Properties of the project state manager *)

\* the metadata.json of the current project
CurrentMetadata == workspace[current_project[1]].metadata

\* the levels a disasters list has entries for
Levels(disasters) == {disasters[i].level : i \in 1..Len(disasters)}

\* C23: after save_step_output(n, ...) on a loaded project the persisted
\* metadata has n in completed_steps and current_step = n, and a get_status
\* that follows reports that current_step.
C23_SaveUpdatesMetadata ==
    [][/\ (sret'.op = "save_step_output" /\ ~sret'.raised)
            => /\ \E i \in 1..Len(CurrentMetadata'.completed_steps) :
                    CurrentMetadata'.completed_steps[i] = sret'.arg
               /\ CurrentMetadata'.current_step = sret'.arg
       /\ (/\ sret.op = "save_step_output" /\ ~sret.raised
           /\ sret'.op = "get_status" /\ ~sret'.raised)
            => sret'.result.current_step = sret.arg]_vars

\* C24: reads of a step output are cached and never stale: the read that
\* follows a save of the step or a switch of project is a miss that returns
\* what the current project stores, the read that repeats a read is a hit,
\* and the hits and misses are counted.
C24_StepCache ==
    [][/\ (/\ sret'.op = "get_step_output" /\ ~sret'.raised
           /\ sret'.arg \in DOMAIN CurrentFiles.steps)
            => /\ sret'.result.text = CurrentFiles.steps[sret'.arg]
               /\ (sret.op \in {"save_step_output", "init_project", "load_project"}
                    => sret'.result.from = "file")
               /\ (sret.op = "get_step_output" /\ sret.arg = sret'.arg
                    => sret'.result.from = "cache")
       /\ (/\ sret.op = "get_step_output" /\ ~sret.raised
           /\ sret.result.from # "None"
           /\ sret'.op = "get_cache_stats")
            => ~sret'.raised]_vars

\* C30: a log_disaster(level, description) that returns leaves one entry per
\* level logged so far, the entry of its level carrying its description and
\* the entries of the other levels as they were, in ascending order of level.
C30_DisastersByLevel ==
    [][(sret'.op = "log_disaster" /\ ~sret'.raised)
        => LET old == CurrentMetadata.disasters
               new == CurrentMetadata'.disasters
           IN  /\ Levels(new) = Levels(old) \cup {sret'.arg[1]}
               /\ Len(new) = Cardinality(Levels(new))
               /\ \A i \in 1..Len(new) :
                    IF new[i].level = sret'.arg[1]
                    THEN new[i].description = sret'.arg[2]
                    ELSE \E j \in 1..Len(old) : old[j] = new[i]
               /\ \A i \in 1..(Len(new) - 1) : new[i].level < new[i + 1].level]_vars

\* a level logged again after a higher level was logged
C30_Witness ==
    /\ sret.op = "log_disaster"
    /\ ~sret.raised
    /\ sret.arg = <<1, "d2">>
    /\ CurrentMetadata.disasters =
            <<[level |-> 1, description |-> "d2"],
              [level |-> 2, description |-> "d1"]>>

-----------------------------------------------------------------------------
(* Properties of the persisted Catalog *)

\* the ref_ids the index holds chunks of
IndexedRefIds == {index[id].metadata.ref_id : id \in DOMAIN index}

\* C21: after every add, remove or clear that succeeds the persisted Catalog
\* is the in-memory Catalog of the instance, so an instance constructed next
\* on the same project lists the same References with the same counters.
C21_PersistedEqualsMemory ==
    [][/\ (/\ ret'.op \in {"add", "remove", "clear"}
           /\ ~ret'.raised
           /\ ret'.result # "False")
            => /\ disk'.file = "json"
               /\ disk'.references = metadata'[ret'.e]
       /\ (/\ ret.op \in {"add", "remove", "clear"}
           /\ ~ret.raised
           /\ ret.result # "False"
           /\ ret'.op = "construct")
            => /\ ret'.error # "JSONDecodeError"
               /\ ~ret'.raised
                    => ListReferences(metadata'[ret'.e])
                            = ListReferences(metadata[ret.e])]_vars

\* an instance constructed on a persisted Catalog that lists a Reference
C21_Witness ==
    /\ ret.op = "construct"
    /\ ~ret.raised
    /\ disk.file = "json"
    /\ metadata[ret.e] # EmptyDict
    /\ disk.references = metadata[ret.e]

\* C22: with two instances on one project the persisted Catalog is never the
\* merge of what the instances wrote: it is the in-memory Catalog of one of
\* them, whole, so the write of one instance drops the References that only
\* the other one knows.
C22_PersistedIsOneInstancesCatalog ==
    \/ disk = NoFile
    \/ /\ disk.file = "json"
       /\ \E e \in engines : disk.references = metadata[e]

\* both instances added a Reference of their own, the persisted Catalog
\* lists only one of the two and the index holds the chunks of both
C22_Witness ==
    /\ ret.op = "add"
    /\ ~ret.raised
    /\ \E r1 \in DOMAIN metadata[1], r2 \in DOMAIN metadata[2] :
        /\ r1 # r2
        /\ r1 \notin DOMAIN metadata[2]
        /\ r2 \notin DOMAIN metadata[1]
        /\ {r1, r2} \subseteq IndexedRefIds
        /\ Cardinality(DOMAIN disk.references \cap {r1, r2}) = 1

\* C25: an add_reference_novel that gets past the duplicate check asks for
\* one embedding of the whole batch, then upserts once, then writes and
\* persists the Catalog, each chunk upserted with the type the Classifier
\* gives its text; the Catalog is as it was when the upsert has not returned;
\* a rejected duplicate asks for no embedding and changes nothing.
C25_AddOrder ==
    [][ret'.op = "add"
        => /\ \E n \in 0..3 :
                ret'.calls = SubSeq(<<"model.encode", "collection.add",
                                      "_save_metadata">>, 1, n)
           /\ ~ret'.raised => Len(ret'.calls) = 3
           /\ ret'.at = "duplicate"
                => ret'.calls = <<>> /\ UNCHANGED <<metadata, disk, index>>
           /\ (ret'.raised /\ ret'.at # "duplicate") => Len(ret'.calls) >= 1
           /\ (ret'.raised /\ ret'.at \in {"duplicate", "model.encode", "collection.add"})
                => UNCHANGED <<metadata, disk>>
           /\ index' # index => Len(ret'.calls) >= 2
           /\ \A id \in DOMAIN index' \ DOMAIN index :
                index'[id].metadata.chunk_type
                    = ClassifyChunkType(index'[id].document)]_vars

\* an add of several chunks that returned: one embedding request for all
C25_Witness ==
    /\ ret.op = "add"
    /\ ~ret.raised
    /\ ret.chunks_added >= 2
    /\ ret.calls = <<"model.encode", "collection.add", "_save_metadata">>

\* C27: a remove_reference that raises leaves the Reference as it was: the
\* in-memory Catalog and the persisted Catalog are unchanged and the index
\* still holds all of its chunks.
C27_FailedRemoveChangesNothing ==
    [][(ret'.op = "remove" /\ ret'.raised)
        => /\ ret'.ref_id \in DOMAIN metadata'[ret'.e]
           /\ metadata' = metadata
           /\ disk' = disk
           /\ CollectionGet(index', ret'.ref_id) = CollectionGet(index, ret'.ref_id)]_vars

\* C28: the author of a Catalog entry is the author in the index metadata of
\* each chunk of the Reference, "Unknown" when it was added without one.
C28_AuthorsAgree ==
    \A e \in engines : \A ref_id \in DOMAIN metadata[e] :
        \A id \in CollectionGet(index, ref_id) :
            index[id].metadata.author = metadata[e][ref_id].author

\* C29: an add that returns has stored the first min(n, max_chunks) of the n
\* chunks of the content, in order, under the indices 0 .. min(n, max_chunks)-1
\* and nothing beyond; chunk_count, total_chars and chunks_added count the
\* stored chunks only.
C29_MaxChunks ==
    [][(ret'.op = "add" /\ ~ret'.raised)
        => \E a \in AddCalls :
            /\ a.title = ret'.title
            /\ LET chunks == ChunkText(a.content, a.chunk_size)
                   m == IF Len(chunks) < a.max_chunks THEN Len(chunks)
                        ELSE a.max_chunks
                   entry == metadata'[ret'.e][ret'.ref_id]
                   chars == SumSeq([k \in 1..m |-> chunks[k].char_count])
               IN  /\ ret'.chunks_added = m
                   /\ CollectionGet(index', ret'.ref_id)
                        = {<<ret'.ref_id, "_chunk_", i>> : i \in 0..(m - 1)}
                   /\ \A i \in 0..(m - 1) :
                        LET rec == index'[<<ret'.ref_id, "_chunk_", i>>]
                        IN  /\ rec.document = chunks[i + 1].text
                            /\ rec.metadata.chunk_index = i
                   /\ entry.chunk_count = m
                   /\ entry.total_chars = chars
                   /\ ret'.total_chars = chars]_vars

\* a content of two chunks added with max_chunks = 1: one chunk is stored
C29_Witness ==
    /\ ret.op = "add"
    /\ ~ret.raised
    /\ ret.title = "bwma"
    /\ ret.chunks_added = 1
    /\ Len(ChunkText(TwoChunkText, 2)) = 2
    /\ CollectionGet(index, ret.ref_id) = {<<ret.ref_id, "_chunk_", 0>>}
    /\ metadata[ret.e][ret.ref_id].chunk_count = 1

-----------------------------------------------------------------------------
(* Properties of the Segmenter's accumulation *)

RECURSIVE JoinLines(_)
\* the pieces joined by single newlines
JoinLines(pieces) ==
    IF pieces = <<>> THEN <<>>
    ELSE IF Len(pieces) = 1 THEN pieces[1]
    ELSE pieces[1] \o <<NL>> \o JoinLines(Tail(pieces))

\* what the input is made of, in its order: the non-blank paragraphs,
\* stripped, a paragraph longer than 2 * chunk_size replaced by its sub-chunks
Pieces(rawText, chunk_size) ==
    LET paras == Paragraphs(NormalizeNewlines(rawText), chunk_size)
    IN  Concat([k \in 1..Len(paras) |->
                    IF Strip(paras[k]) = <<>> THEN <<>>
                    ELSE IF Len(Strip(paras[k])) > 2 * chunk_size
                    THEN SplitLongParagraph(Strip(paras[k]), chunk_size)
                    ELSE <<Strip(paras[k])>>])

RECURSIVE Covers(_, _)
\* the texts are the pieces, each piece in one text, in order
Covers(texts, pieces) ==
    IF texts = <<>> THEN pieces = <<>>
    ELSE \E k \in 1..Len(pieces) :
            /\ JoinLines(SubSeq(pieces, 1, k)) = Head(texts)
            /\ Covers(Tail(texts), SubSeq(pieces, k + 1, Len(pieces)))

\* C26: the chunks of _chunk_text are the pieces of the input in input order,
\* each piece in exactly one chunk, up to a last run of pieces that is
\* dropped, and a dropped run has at most 50 characters in all; the empty
\* text gives no chunk.
C26_SegmenterPreservesText ==
    (pout.done /\ pin.fn = "chunk") =>
        LET pieces == Pieces(pin.text, pin.chunk_size)
            texts == [k \in 1..Len(pout.chunks) |-> pout.chunks[k].text]
        IN  /\ \E cut \in 0..Len(pieces) :
                /\ Covers(texts, SubSeq(pieces, 1, cut))
                /\ SumSeq([k \in 1..(Len(pieces) - cut) |-> Len(pieces[cut + k])]) <= 50
            /\ pin.text = <<>> => pout.chunks = <<>>

\* two lines joined in one trailing buffer of more than 50 characters, kept
C26_Witness ==
    /\ pout.done /\ pin.fn = "chunk"
    /\ Len(Pieces(pin.text, pin.chunk_size)) = 2
    /\ Len(pout.chunks) = 1
    /\ pout.chunks[1].text = JoinLines(Pieces(pin.text, pin.chunk_size))
    /\ pout.chunks[1].char_count = 51

====
